---- MODULE Spec2Model ----
(***************************************************************************)
(* Model of the tag-dummy message protocol: the field codecs               *)
(* (field_codecs.py), the message codecs, dispatchers and splitters        *)
(* (message_codecs.py).                                                    *)
(*                                                                         *)
(* Python values are one-field records [kind |-> payload]:                 *)
(*   none, int, bool, float (<<num, den>>, the value num/den),             *)
(*   str (sequence of code points), sym (a TLA+ string, used for the       *)
(*   protocol's identifier strings such as a message NAME),                *)
(*   bytes (sequence of 0..255), list (sequence of values),                *)
(*   dict (function from keys to values), json (JSON text, as its tree).   *)
(* A call either returns a value or raises: Ok(x) / Err(exception name).   *)
(***************************************************************************)
EXTENDS Integers, Sequences, FiniteSets, TLC

VARIABLES op, cls, input, msg, out, back

\* the running program (main.py, userterminal.py): the transport loop's client,
\* the packet it is receiving and its position in the loop; the two queues; the
\* control process's checklists, picked questions, keyboard queue and position;
\* the radio link to the peer accepted last, the connection requests waiting, the
\* chunks in flight to the transport, what the peer has been sent, and what the
\* peers and the keyboard may still do
VARIABLES client, pkt, tpos, my_q, mgr_q, checklists, picked_questions, keyb_queue,
          mpos, link, waiting, wire, sent, budget

codecvars == <<op, cls, input, msg, out, back>>
sysvars == <<client, pkt, tpos, my_q, mgr_q, checklists, picked_questions, keyb_queue,
             mpos, link, waiting, wire, sent, budget>>
vars == <<codecvars, sysvars>>

----------------------------------------------------------------------------
(* Python values and call results *)

PyNone == [none |-> TRUE]
PyInt(n) == [int |-> n]
PyBool(b) == [bool |-> b]
PyFloat(num, den) == [float |-> <<num, den>>]
PyStr(s) == [str |-> s]
PySym(s) == [sym |-> s]
PyBytes(b) == [bytes |-> b]
PyList(l) == [list |-> l]
PyDict(f) == [dict |-> f]
Unset == [unset |-> TRUE]
PyJson(tree) == [json |-> tree]

\* the kind and the payload of a value
T(x) == CHOOSE k \in DOMAIN x : TRUE
V(x) == x[T(x)]

Ok(x) == [ok |-> TRUE, val |-> x]
Err(e) == [ok |-> FALSE, err |-> e]
\* the call F on the value of r, unless r is already an exception
Bind(F(_), r) == IF r.ok THEN F(r.val) ELSE r
\* the call F on the values of r1 and r2, unless one of them is an exception
Bind2(F(_, _), r1, r2) == IF ~r1.ok THEN r1 ELSE IF ~r2.ok THEN r2 ELSE F(r1.val, r2.val)

Min(a, b) == IF a < b THEN a ELSE b
Zeros(n) == [i \in 1..n |-> 0]

\* islice(it, n) on an iterator standing at position from (1-based)
Slice(b, from, n) == SubSeq(b, from, Min(from + n - 1, Len(b)))

\* the first raised exception of a sequence of call results, in call order
FirstErr(rs) ==
    LET bad == {i \in 1..Len(rs) : ~rs[i].ok}
    IN  IF bad = {} THEN Ok(PyNone)
        ELSE rs[CHOOSE i \in bad : \A j \in bad : i <= j]

IsNum(x) == T(x) \in {"int", "bool", "float"}
\* numeric value as the pair <<num, den>>
NumOf(x) == IF T(x) = "int" THEN <<V(x), 1>>
            ELSE IF T(x) = "bool" THEN <<IF V(x) THEN 1 ELSE 0, 1>>
            ELSE V(x)

RECURSIVE PyEq(_, _)
\* Python ==
PyEq(a, b) ==
    IF IsNum(a) /\ IsNum(b)
    THEN IF NumOf(a)[2] = NumOf(b)[2] THEN NumOf(a)[1] = NumOf(b)[1]
         ELSE NumOf(a)[1] * NumOf(b)[2] = NumOf(b)[1] * NumOf(a)[2]
    ELSE IF T(a) # T(b) THEN FALSE
    ELSE IF T(a) \in {"none", "unset"} THEN TRUE
    ELSE IF T(a) = "list"
    THEN Len(V(a)) = Len(V(b)) /\ \A i \in 1..Len(V(a)) : PyEq(V(a)[i], V(b)[i])
    ELSE IF T(a) = "dict"
    THEN DOMAIN V(a) = DOMAIN V(b) /\ \A k \in DOMAIN V(a) : PyEq(V(a)[k], V(b)[k])
    ELSE V(a) = V(b)

\* bool(x)
Truthy(x) ==
    IF T(x) = "none" THEN FALSE
    ELSE IF T(x) = "bool" THEN V(x)
    ELSE IF T(x) = "int" THEN V(x) # 0
    ELSE IF T(x) = "float" THEN V(x)[1] # 0
    ELSE IF T(x) = "dict" THEN DOMAIN V(x) # {}
    ELSE IF T(x) = "sym" THEN V(x) # ""
    ELSE Len(V(x)) > 0

\* truncation toward zero of num/den (den > 0)
TruncDiv(num, den) == IF num >= 0 THEN num \div den ELSE -((-num) \div den)

IsDigits(s) == Len(s) > 0 /\ \A i \in 1..Len(s) : s[i] \in 48..57
RECURSIVE DigitsVal(_)
DigitsVal(s) == IF Len(s) = 0 THEN 0
                ELSE 10 * DigitsVal(SubSeq(s, 1, Len(s) - 1)) + (s[Len(s)] - 48)

\* int(x)
PyIntOf(x) ==
    IF T(x) = "int" THEN Ok(x)
    ELSE IF T(x) = "bool" THEN Ok(PyInt(IF V(x) THEN 1 ELSE 0))
    ELSE IF T(x) = "float" THEN Ok(PyInt(TruncDiv(V(x)[1], V(x)[2])))
    ELSE IF T(x) = "str" THEN (IF IsDigits(V(x)) THEN Ok(PyInt(DigitsVal(V(x))))
                              ELSE Err("ValueError"))
    ELSE IF T(x) = "sym" THEN Err("ValueError")
    ELSE Err("TypeError")

\* bytes([x]) for one element x
ByteOf(x) ==
    IF T(x) \notin {"int", "bool"} THEN Err("TypeError")
    ELSE IF NumOf(x)[1] \notin 0..255 THEN Err("ValueError")
    ELSE Ok(<<NumOf(x)[1]>>)

\* len(x)
PyLen(x) ==
    IF T(x) \in {"str", "bytes", "list"} THEN Ok(Len(V(x)))
    ELSE IF T(x) = "dict" THEN Ok(Cardinality(DOMAIN V(x)))
    ELSE Err("TypeError")

----------------------------------------------------------------------------
(* str.encode() / bytes.decode() (UTF-8, code points below 2048) *)

IsAscii(s) == \A i \in 1..Len(s) : s[i] < 128

RECURSIVE Utf8Encode(_)
Utf8Encode(s) ==
    IF IsAscii(s) THEN s
    ELSE (IF s[1] < 128 THEN <<s[1]>>
          ELSE <<192 + (s[1] \div 64), 128 + (s[1] % 64)>>) \o Utf8Encode(Tail(s))

RECURSIVE Utf8Decode(_)
Utf8Decode(b) ==
    IF IsAscii(b) THEN Ok(b)
    ELSE IF b[1] < 128
    THEN LET r == Utf8Decode(Tail(b))
         IN  IF r.ok THEN Ok(<<b[1]>> \o r.val) ELSE r
    ELSE IF b[1] \in 194..223 /\ Len(b) >= 2 /\ b[2] \in 128..191
    THEN LET r == Utf8Decode(SubSeq(b, 3, Len(b)))
         IN  IF r.ok THEN Ok(<<(b[1] - 192) * 64 + (b[2] - 128)>> \o r.val) ELSE r
    ELSE Err("UnicodeDecodeError")

\* s.index(c): position of the first c, 0 when there is none
IndexOf(s, c) ==
    IF \E i \in 1..Len(s) : s[i] = c
    THEN CHOOSE i \in 1..Len(s) : s[i] = c /\ \A j \in 1..(i - 1) : s[j] # c
    ELSE 0

----------------------------------------------------------------------------
(* int.to_bytes / int.from_bytes, little-endian *)

ENDIANNESS == "little"

RECURSIVE FitsUnsigned(_, _)
FitsUnsigned(n, length) ==
    IF n < 0 THEN FALSE
    ELSE IF length = 0 THEN n = 0
    ELSE FitsUnsigned(n \div 256, length - 1)

RECURSIVE LEBytes(_, _)
LEBytes(n, length) ==
    IF length = 0 THEN <<>> ELSE <<n % 256>> \o LEBytes(n \div 256, length - 1)

\* n.to_bytes(length, ENDIANNESS)
IntToBytes(n, length) ==
    IF FitsUnsigned(n, length) THEN Ok(LEBytes(n, length)) ELSE Err("OverflowError")

RECURSIVE IntFromBytes(_)
\* int.from_bytes(b, ENDIANNESS)
IntFromBytes(b) ==
    IF Len(b) = 0 THEN 0 ELSE b[1] + 256 * IntFromBytes(Tail(b))

----------------------------------------------------------------------------
(* json.dumps / json.loads                                                 *)
(* Two views of JSON text are kept.  JsonDumpsText/JsonLoadsText are the   *)
(* concrete characters, for the documents carried by the JSON fields and   *)
(* the splitters (integers, ASCII strings without escapes, lists of        *)
(* those).  JsonDumps/JsonLoads treat the text of a whole message as its   *)
(* JSON value [json |-> tree]      : dumps fails on bytes and turns   *)
(* every mapping key into a string, loads returns the tree.                *)

RECURSIVE DigitsOf(_)
DigitsOf(n) == IF n < 10 THEN <<48 + n>> ELSE DigitsOf(n \div 10) \o <<48 + (n % 10)>>

IsPlainStr(s) == \A i \in 1..Len(s) : s[i] \in 32..126 /\ s[i] \notin {34, 92}

RECURSIVE JsonDumpsText(_)
RECURSIVE JsonItemsText(_)
RECURSIVE JsonMembersText(_, _)
JsonItemsText(l) ==
    IF Len(l) = 0 THEN Ok(<<>>)
    ELSE IF Len(l) = 1 THEN JsonDumpsText(l[1])
    ELSE Bind2(LAMBDA h, r : Ok(h \o <<44, 32>> \o r),
               JsonDumpsText(l[1]), JsonItemsText(Tail(l)))

\* the text of the members ks of the mapping d (keys that are strings or
\* integers): "key": value, joined by ", "; the members are written in one fixed
\* order, the model's mappings having none
JsonMemberText(d, ks, k) ==
    Bind2(LAMBDA val, rest :
              Ok(<<34>> \o (IF T(k) = "str" THEN V(k)
                            ELSE IF V(k) < 0 THEN <<45>> \o DigitsOf(-V(k))
                            ELSE DigitsOf(V(k)))
                 \o <<34, 58, 32>> \o val
                 \o (IF ks = {k} THEN <<>> ELSE <<44, 32>> \o rest)),
          JsonDumpsText(d[k]), JsonMembersText(d, ks \ {k}))

JsonMembersText(d, ks) ==
    IF ks = {} THEN Ok(<<>>) ELSE JsonMemberText(d, ks, CHOOSE k \in ks : TRUE)

JsonDumpsText(x) ==
    IF T(x) = "int"
    THEN Ok(IF V(x) < 0 THEN <<45>> \o DigitsOf(-V(x)) ELSE DigitsOf(V(x)))
    ELSE IF T(x) = "none" THEN Ok(<<110, 117, 108, 108>>)
    ELSE IF T(x) = "bool"
    THEN Ok(IF V(x) THEN <<116, 114, 117, 101>> ELSE <<102, 97, 108, 115, 101>>)
    ELSE IF T(x) = "str" /\ IsPlainStr(V(x)) THEN Ok(<<34>> \o V(x) \o <<34>>)
    ELSE IF T(x) = "list"
    THEN Bind(LAMBDA r : Ok(<<91>> \o r \o <<93>>), JsonItemsText(V(x)))
    ELSE IF T(x) = "dict" /\ \A k \in DOMAIN V(x) : T(k) \in {"str", "int"}
    THEN Bind(LAMBDA r : Ok(<<123>> \o r \o <<125>>),
              JsonMembersText(V(x), DOMAIN V(x)))
    ELSE Err("TypeError")

RECURSIVE SkipSpaces(_)
SkipSpaces(s) == IF Len(s) > 0 /\ s[1] = 32 THEN SkipSpaces(Tail(s)) ELSE s

JsonScalar(s) ==
    IF IsDigits(s) THEN Ok(PyInt(DigitsVal(s)))
    ELSE IF Len(s) >= 2 /\ s[1] = 45 /\ IsDigits(Tail(s))
    THEN Ok(PyInt(-DigitsVal(Tail(s))))
    ELSE IF Len(s) >= 2 /\ s[1] = 34 /\ s[Len(s)] = 34
            /\ IsPlainStr(SubSeq(s, 2, Len(s) - 1))
    THEN Ok(PyStr(SubSeq(s, 2, Len(s) - 1)))
    ELSE IF s = <<110, 117, 108, 108>> THEN Ok(PyNone)
    ELSE IF s = <<116, 114, 117, 101>> THEN Ok(PyBool(TRUE))
    ELSE IF s = <<102, 97, 108, 115, 101>> THEN Ok(PyBool(FALSE))
    ELSE Err("JSONDecodeError")

RECURSIVE JsonItems(_)
JsonItems(s) ==
    IF IndexOf(s, 44) = 0
    THEN Bind(LAMBDA e : Ok(<<e>>), JsonScalar(s))
    ELSE Bind2(LAMBDA e, r : Ok(<<e>> \o r),
               JsonScalar(SubSeq(s, 1, IndexOf(s, 44) - 1)),
               JsonItems(SkipSpaces(SubSeq(s, IndexOf(s, 44) + 1, Len(s)))))

JsonLoadsText(s) ==
    IF Len(s) >= 2 /\ s[1] = 91 /\ s[Len(s)] = 93
    THEN IF Len(s) = 2 THEN Ok(PyList(<<>>))
         ELSE Bind(LAMBDA r : Ok(PyList(r)), JsonItems(SubSeq(s, 2, Len(s) - 1)))
    ELSE JsonScalar(s)

JsonKey(k) ==
    IF T(k) \in {"str", "sym"} THEN Ok(k)
    ELSE IF T(k) = "int" /\ V(k) >= 0 THEN Ok(PyStr(DigitsOf(V(k))))
    ELSE IF T(k) = "int" THEN Ok(PyStr(<<45>> \o DigitsOf(-V(k))))
    ELSE Err("TypeError")

RECURSIVE JsonTree(_)
JsonTree(x) ==
    IF T(x) \in {"bytes", "unset"} THEN Err("TypeError")
    ELSE IF T(x) = "list"
    THEN LET rs == [i \in 1..Len(V(x)) |-> JsonTree(V(x)[i])]
             e == FirstErr(rs)
         IN  IF e.ok THEN Ok(PyList([i \in 1..Len(V(x)) |-> rs[i].val])) ELSE e
    ELSE IF T(x) = "dict"
    THEN LET ks == DOMAIN V(x)
         IN  IF \E k \in ks : ~JsonKey(k).ok THEN Err("TypeError")
             ELSE IF \E k \in ks : ~JsonTree(V(x)[k]).ok THEN Err("TypeError")
             ELSE Ok(PyDict([j \in {JsonKey(k).val : k \in ks} |->
                       JsonTree(V(x)[CHOOSE k \in ks : JsonKey(k).val = j]).val]))
    ELSE Ok(x)

\* json.dumps(x)
JsonDumps(x) ==
    LET r == JsonTree(x) IN IF r.ok THEN Ok(PyJson(r.val)) ELSE r

\* json.loads(s)
JsonLoads(s) ==
    IF T(s) = "json" THEN Ok(V(s))
    ELSE IF T(s) \in {"str", "bytes"}
    THEN Bind(JsonLoadsText, IF T(s) = "str" THEN Ok(V(s)) ELSE Utf8Decode(V(s)))
    ELSE Err("TypeError")

\* a mapping with the identifier keys of record r
MkDict(r) == PyDict([k \in {PySym(n) : n \in DOMAIN r} |-> r[V(k)]])
Has(d, name) == PySym(name) \in DOMAIN V(d)
\* d[name]
Get(d, name) == IF Has(d, name) THEN Ok(V(d)[PySym(name)]) ELSE Err("KeyError")
\* d.get(name, None)
GetOrNone(d, name) == IF Has(d, name) THEN Ok(V(d)[PySym(name)]) ELSE Ok(PyNone)

----------------------------------------------------------------------------
(* field_codecs.py: the generic field classes.                             *)
(* A field object is [kind, length, v]: v is the stored value, Unset when  *)
(* the constructor returned without storing one.                           *)

Field(kind, length, v) == [kind |-> kind, length |-> length, v |-> v]

\* FieldInteger.__init__ / value setter
FieldInteger(value, length) ==
    IF T(value) \in {"int", "bool"} THEN Ok(Field("FieldInteger", length, value))
    ELSE IF T(value) = "bytes"
    THEN IF Len(V(value)) # length THEN Err("ValueError")
         ELSE Ok(Field("FieldInteger", length, PyInt(IntFromBytes(V(value)))))
    ELSE IF T(value) = "none" THEN Ok(Field("FieldInteger", length, PyNone))
    ELSE Err("ValueError")

FieldInteger_as_bytes(self) ==
    IF T(self.v) = "none" THEN Err("AttributeError")
    ELSE LET r == IntToBytes(NumOf(self.v)[1], self.length)
         IN  IF r.ok THEN Ok(PyBytes(r.val)) ELSE r

\* FieldText.__init__ / value setter
FieldText(value, length) ==
    IF T(value) = "str"
    THEN IF Len(Utf8Encode(V(value))) > length THEN Err("ValueError")
         ELSE Ok(Field("FieldText", length, value))
    ELSE IF T(value) = "bytes"
    THEN IF Len(V(value)) > length THEN Err("ValueError")
         ELSE LET d == Utf8Decode(V(value))
              IN  IF ~d.ok THEN d
                  ELSE LET p == IndexOf(d.val, 0)
                       IN  IF p = 0 THEN Err("ValueError")
                           ELSE Ok(Field("FieldText", length,
                                         PyStr(SubSeq(d.val, 1, p - 1))))
    ELSE IF T(value) = "none" THEN Ok(Field("FieldText", length, PyNone))
    ELSE Err("ValueError")

FieldText_as_bytes(self) ==
    IF T(self.v) = "none" THEN Err("AttributeError")
    ELSE Ok(PyBytes(SubSeq(Utf8Encode(V(self.v)) \o Zeros(self.length), 1, self.length)))

\* bytes(list)
BytesOfList(l) ==
    IF \E i \in 1..Len(l) : T(l[i]) \notin {"int", "bool"} THEN Err("TypeError")
    ELSE IF \E i \in 1..Len(l) : NumOf(l[i])[1] \notin 0..255 THEN Err("ValueError")
    ELSE Ok([i \in 1..Len(l) |-> NumOf(l[i])[1]])

\* FieldBinary.__init__ / value setter
FieldBinary(value, length) ==
    IF T(value) = "list"
    THEN IF Len(V(value)) # length THEN Err("ValueError")
         ELSE LET b == BytesOfList(V(value))
              IN  IF b.ok THEN Ok(Field("FieldBinary", length, PyBytes(b.val))) ELSE b
    ELSE IF T(value) = "bytes"
    THEN IF Len(V(value)) # length THEN Err("ValueError")
         ELSE Ok(Field("FieldBinary", length, value))
    ELSE IF T(value) = "str"
    THEN IF Len(V(value)) > length THEN Err("ValueError")
         ELSE Ok(Field("FieldBinary", length, PyBytes(Utf8Encode(V(value)))))
    ELSE IF T(value) = "none" THEN Ok(Field("FieldBinary", length, PyNone))
    ELSE Err("ValueError")

FieldBinary_as_bytes(self) == Ok(self.v)

\* the setter with the capacity test >= in place of >
FieldJSON_below(value, length) ==
    IF T(value) = "bytes"
    THEN IF Len(V(value)) # length THEN Err("ValueError")
         ELSE Bind(LAMBDA d :
                       Bind(LAMBDA r : Ok(Field("FieldJSON", length, r)),
                            JsonLoadsText(IF IndexOf(d, 0) = 0 THEN d
                                          ELSE SubSeq(d, 1, IndexOf(d, 0) - 1))),
                   Utf8Decode(V(value)))
    ELSE Bind(LAMBDA strvalue :
                  IF Len(Utf8Encode(strvalue)) >= length THEN Err("ValueError")
                  ELSE Ok(Field("FieldJSON", length, value)),
              JsonDumpsText(value))

\* FieldJSON.__init__ / value setter
FieldJSON(value, length) ==
    IF T(value) = "bytes"
    THEN IF Len(V(value)) # length THEN Err("ValueError")
         ELSE Bind(LAMBDA d :
                       Bind(LAMBDA r : Ok(Field("FieldJSON", length, r)),
                            JsonLoadsText(IF IndexOf(d, 0) = 0 THEN d
                                          ELSE SubSeq(d, 1, IndexOf(d, 0) - 1))),
                   Utf8Decode(V(value)))
    ELSE Bind(LAMBDA strvalue :
                  IF Len(Utf8Encode(strvalue)) > length THEN Err("ValueError")
                  ELSE Ok(Field("FieldJSON", length, value)),
              JsonDumpsText(value))

FieldJSON_as_bytes(self) ==
    LET strvalue == JsonDumpsText(self.v)
    IN  IF ~strvalue.ok THEN strvalue
        ELSE Ok(PyBytes(Utf8Encode(
                 SubSeq(strvalue.val \o Zeros(self.length), 1, self.length))))

\* FieldVarLenList.__init__ / value setter
FieldVarLenList(value, length) ==
    IF T(value) = "bytes"
    THEN IF Len(V(value)) # length THEN Err("ValueError")
         ELSE Ok(Field("FieldVarLenList", length,
                   PyList([i \in 1..(Min(V(value)[1] + 1, Len(V(value))) - 1) |->
                              PyBool(V(value)[i + 1] # 0)])))
    ELSE IF T(value) = "list"
    THEN IF Len(V(value)) > length - 1 THEN Err("ValueError")
         ELSE Ok(Field("FieldVarLenList", length, value))
    ELSE Ok(Field("FieldVarLenList", length, Unset))

\* as_bytes without the count byte
FieldVarLenList_as_bytes_nocount(self) ==
    IF T(self.v) = "unset" THEN Err("AttributeError")
    ELSE LET b == BytesOfList(V(self.v))
         IN  IF ~b.ok THEN b
             ELSE Ok(PyBytes(SubSeq(b.val \o Zeros(20), 1, self.length)))

FieldVarLenList_as_bytes(self) ==
    IF T(self.v) = "unset" THEN Err("AttributeError")
    ELSE LET n == ByteOf(PyInt(Len(V(self.v))))
             b == BytesOfList(V(self.v))
         IN  IF ~n.ok THEN n
             ELSE IF ~b.ok THEN b
             ELSE Ok(PyBytes(SubSeq(n.val \o b.val \o Zeros(20), 1, self.length)))

----------------------------------------------------------------------------
(* field_codecs.py: the composite fields *)

NUM_RESPONSES == 5
FieldChecklistResponses_SIZE == NUM_RESPONSES

\* v in (0, 1, 2)
IsAnswerCode(v) == IsNum(v) /\ \E c \in 0..2 : PyEq(v, PyInt(c))

\* FieldChecklistResponses.__init__
FieldChecklistResponses(value) ==
    LET n == PyLen(value)
    IN  IF ~n.ok THEN n
        ELSE IF n.val # NUM_RESPONSES
        THEN \* the message of the ValueError evaluates value['responses']
             IF T(value) = "dict"
             THEN IF Has(value, "responses")
                  THEN (IF PyLen(V(value)[PySym("responses")]).ok
                        THEN Err("ValueError") ELSE Err("TypeError"))
                  ELSE Err("KeyError")
             ELSE Err("TypeError")
        ELSE IF T(value) = "dict"
        THEN IF \E k \in DOMAIN V(value) : ~IsAnswerCode(V(value)[k])
             THEN Err("ValueError")
             ELSE IF \E k \in DOMAIN V(value) : ~PyIntOf(k).ok
             THEN PyIntOf(CHOOSE k \in DOMAIN V(value) : ~PyIntOf(k).ok)
             ELSE Ok(Field("FieldChecklistResponses", FieldChecklistResponses_SIZE,
                       PyDict([j \in {PyIntOf(k).val : k \in DOMAIN V(value)} |->
                          V(value)[CHOOSE k \in DOMAIN V(value) : PyIntOf(k).val = j]])))
        ELSE IF T(value) = "bytes"
        THEN \* self._value[k] = v on an object that has no _value
             Err("AttributeError")
        ELSE Err("ValueError")

FieldChecklistResponses_as_bytes(self) ==
    IF T(self.v) = "dict" /\ DOMAIN V(self.v) # {}
    THEN \* out += v << 5 | k adds an int to bytes
         Err("TypeError")
    ELSE Ok(PyBytes(Zeros(NUM_RESPONSES)))

UWB_BYTES_PER_DIM == 3
FieldUWBPosition_SIZE == 3 * UWB_BYTES_PER_DIM
UWB_CONV_FACTOR == 1000
GPS_BYTES_PER_COORD == 4
FieldGPSPosition_SIZE == 2 * GPS_BYTES_PER_COORD
GPS_CONV_FACTOR == 10000000

\* int.from_bytes(b, ENDIANNESS, signed=True)
SignedFromBytes(b) ==
    IF Len(b) > 0 /\ b[Len(b)] >= 128
    THEN -(IntFromBytes([i \in 1..Len(b) |-> 255 - b[i]]) + 1)
    ELSE IntFromBytes(b)

\* n.to_bytes(length, ENDIANNESS, signed=True)
SignedToBytes(n, length) ==
    IF n >= 0
    THEN IF FitsUnsigned(n, length) /\ LEBytes(n, length)[length] < 128
         THEN Ok(LEBytes(n, length)) ELSE Err("OverflowError")
    ELSE IF FitsUnsigned(-(n + 1), length) /\ LEBytes(-(n + 1), length)[length] < 128
         THEN Ok([i \in 1..length |-> 255 - LEBytes(-(n + 1), length)[i]])
         ELSE Err("OverflowError")

\* FieldUWBPosition.__init__ / value setter
FieldUWBPosition(value) ==
    IF T(value) = "dict"
    THEN LET e == FirstErr(<<Get(value, "xpos"), Get(value, "ypos"), Get(value, "zpos")>>)
         IN  IF ~e.ok THEN e
             ELSE Ok(Field("FieldUWBPosition", FieldUWBPosition_SIZE,
                       MkDict([xpos |-> Get(value, "xpos").val,
                               ypos |-> Get(value, "ypos").val,
                               zpos |-> Get(value, "zpos").val])))
    ELSE IF T(value) = "bytes"
    THEN IF Len(V(value)) > FieldUWBPosition_SIZE THEN Err("ValueError")
         ELSE Ok(Field("FieldUWBPosition", FieldUWBPosition_SIZE,
                   MkDict([xpos |-> PyFloat(SignedFromBytes(
                                      Slice(V(value), 1, UWB_BYTES_PER_DIM)),
                                      UWB_CONV_FACTOR),
                           ypos |-> PyFloat(SignedFromBytes(
                                      Slice(V(value), 1 + UWB_BYTES_PER_DIM,
                                            UWB_BYTES_PER_DIM)), UWB_CONV_FACTOR),
                           zpos |-> PyFloat(SignedFromBytes(
                                      Slice(V(value), 1 + 2 * UWB_BYTES_PER_DIM,
                                            UWB_BYTES_PER_DIM)), UWB_CONV_FACTOR)])))
    ELSE Err("ValueError")

\* (x * CONV_FACTOR).to_bytes(...): the product with the float 1e3 is a float,
\* which has no to_bytes; None * 1e3 is a TypeError
FieldUWBPosition_as_bytes(self) ==
    IF IsNum(V(self.v)[PySym("xpos")]) THEN Err("AttributeError") ELSE Err("TypeError")

\* FieldGPSPosition.__init__ / value setter
FieldGPSPosition(value) ==
    IF T(value) = "dict"
    THEN LET e == FirstErr(<<Get(value, "lat"), Get(value, "lon")>>)
         IN  IF ~e.ok THEN e
             ELSE Ok(Field("FieldGPSPosition", FieldGPSPosition_SIZE,
                       MkDict([lat |-> Get(value, "lat").val,
                               lon |-> Get(value, "lon").val])))
    ELSE IF T(value) = "bytes"
    THEN IF Len(V(value)) > FieldGPSPosition_SIZE THEN Err("ValueError")
         ELSE Ok(Field("FieldGPSPosition", FieldGPSPosition_SIZE,
                   MkDict([lat |-> PyFloat(SignedFromBytes(
                                     Slice(V(value), 1, GPS_BYTES_PER_COORD)),
                                     GPS_CONV_FACTOR),
                           lon |-> PyFloat(SignedFromBytes(
                                     Slice(V(value), 1 + GPS_BYTES_PER_COORD,
                                           GPS_BYTES_PER_COORD)), GPS_CONV_FACTOR)])))
    ELSE Err("ValueError")

\* p with 2^p <= n < 2^(p+1), for 0 < n < 2^31
FloorLog2(n) == CHOOSE p \in 0..30 : 2^p <= n /\ n \div 2 < 2^p
\* the number of doublings that take a to bound or above, for 0 < a
DoublingsBelow(a, bound) ==
    LET c == (bound + a - 1) \div a
    IN  CHOOSE d \in 0..30 : 2^d >= c /\ (d = 0 \/ 2^(d - 1) < c)
\* q * 2^times modulo modulus, seven doublings at a time (32-bit products)
RECURSIVE DoubleMod(_, _, _)
DoubleMod(q, times, modulus) ==
    IF times < 7 THEN (q * 2^times) % modulus
    ELSE DoubleMod((q * 2^7) % modulus, times - 7, modulus)

\* e with 2^e <= a / 10^7 < 2^(e+1)
BinaryExponent(a) ==
    IF a >= GPS_CONV_FACTOR THEN FloorLog2(a \div GPS_CONV_FACTOR)
    ELSE -DoublingsBelow(a, GPS_CONV_FACTOR)
\* a - 1 when the product falls short of a by q / 2^s, more than half the
\* spacing of the doubles below a; else a
TruncShort(a, q, half) == IF half < q /\ 2 * q < GPS_CONV_FACTOR THEN a - 1 ELSE a
TruncBetween(a, e, p) ==
    TruncShort(a, DoubleMod(a % GPS_CONV_FACTOR, 52 - e, GPS_CONV_FACTOR),
               2^(IF 2^p = a THEN p - e - 2 ELSE p - e - 1))

\* int(x * 1e7) in IEEE-754 double arithmetic, for x the double nearest a / 10^7
\* (a > 0).  With e the binary exponent of x and s = 52 - e, x is
\* round(a * 2^s / 10^7) / 2^s, so the exact product x * 10^7 is a - q / 2^s
\* when the remainder q of a * 2^s by 10^7 is below half (x was rounded down).
\* The doubles just below a are 2^(p - 52) apart (p the binary exponent of a,
\* half of that when a is a power of two), so the rounded product is below a,
\* and int() gives a - 1, exactly when q / 2^s exceeds half that spacing.
FloatProductTrunc(a) == TruncBetween(a, BinaryExponent(a), FloorLog2(a))

\* int(x * CONV_FACTOR), x = num/den the nearest double (den a divisor of the factor)
GPSScaled(x) ==
    LET scale == GPS_CONV_FACTOR \div NumOf(x)[2]
        num == NumOf(x)[1]
        mag == IF num < 0 THEN -num ELSE num
    IN  IF mag > 2147483647 \div scale THEN Err("OverflowError")
        ELSE IF mag = 0 THEN Ok(0)
        ELSE IF num < 0 THEN Ok(-FloatProductTrunc(mag * scale))
        ELSE Ok(FloatProductTrunc(mag * scale))

GPSCoordBytes(x) ==
    IF ~IsNum(x) THEN Err("TypeError")
    ELSE Bind(LAMBDA k : SignedToBytes(k, GPS_BYTES_PER_COORD), GPSScaled(x))

FieldGPSPosition_as_bytes(self) ==
    Bind2(LAMBDA lat, lon : Ok(PyBytes(lat \o lon)),
          GPSCoordBytes(V(self.v)[PySym("lat")]),
          GPSCoordBytes(V(self.v)[PySym("lon")]))

----------------------------------------------------------------------------
(* field_codecs.py: the concrete fixed-width fields *)

FieldUID_SIZE == 4
FieldTagID_SIZE == 8
FieldUsername_SIZE == 16
FieldPayloadLength_SIZE == 2
FieldUserQuestion_SIZE == 4096
FieldUserQuestionSegment_SIZE == 31
FieldChecklistData_SIZE == 4096
FieldChecklistSegment_SIZE == 31
FieldFrameCounter_SIZE == 2
FieldTimestamp_SIZE == 4
FieldVehicleName_SIZE == 16
FieldUserQuestionResponse_SIZE == 10

FieldUID(value) == FieldInteger(value, FieldUID_SIZE)
FieldTagID(value) == FieldInteger(value, FieldTagID_SIZE)
FieldUsername(value) == FieldText(value, FieldUsername_SIZE)
FieldPayloadLength(value) == FieldInteger(value, FieldPayloadLength_SIZE)
FieldUserQuestion(value) == FieldJSON(value, FieldUserQuestion_SIZE)
FieldUserQuestionSegment(value) == FieldBinary(value, FieldUserQuestionSegment_SIZE)
FieldChecklistData(value) == FieldJSON(value, FieldChecklistData_SIZE)
FieldChecklistSegment(value) == FieldBinary(value, FieldChecklistSegment_SIZE)
FieldFrameCounter(value) == FieldInteger(value, FieldFrameCounter_SIZE)
FieldTimestamp(value) == FieldInteger(value, FieldTimestamp_SIZE)
FieldVehicleName(value) == FieldText(value, FieldVehicleName_SIZE)
FieldUserQuestionResponse(value) == FieldVarLenList(value, FieldUserQuestionResponse_SIZE)

\* field.as_bytes(), by the class of the field object
as_bytes(self) ==
    IF self.kind = "FieldInteger" THEN FieldInteger_as_bytes(self)
    ELSE IF self.kind = "FieldText" THEN FieldText_as_bytes(self)
    ELSE IF self.kind = "FieldBinary" THEN FieldBinary_as_bytes(self)
    ELSE IF self.kind = "FieldJSON" THEN FieldJSON_as_bytes(self)
    ELSE IF self.kind = "FieldVarLenList" THEN FieldVarLenList_as_bytes(self)
    ELSE IF self.kind = "FieldChecklistResponses"
    THEN FieldChecklistResponses_as_bytes(self)
    ELSE IF self.kind = "FieldUWBPosition" THEN FieldUWBPosition_as_bytes(self)
    ELSE FieldGPSPosition_as_bytes(self)

\* the field classes that have a SIZE
FieldClasses ==
    {"FieldUID", "FieldTagID", "FieldUsername", "FieldPayloadLength",
     "FieldUserQuestion", "FieldUserQuestionSegment", "FieldChecklistData",
     "FieldChecklistSegment", "FieldFrameCounter", "FieldTimestamp",
     "FieldVehicleName", "FieldUserQuestionResponse", "FieldChecklistResponses",
     "FieldUWBPosition", "FieldGPSPosition"}

\* F.SIZE
SIZE(c) ==
    CASE c = "FieldUID" -> FieldUID_SIZE
      [] c = "FieldTagID" -> FieldTagID_SIZE
      [] c = "FieldUsername" -> FieldUsername_SIZE
      [] c = "FieldPayloadLength" -> FieldPayloadLength_SIZE
      [] c = "FieldUserQuestion" -> FieldUserQuestion_SIZE
      [] c = "FieldUserQuestionSegment" -> FieldUserQuestionSegment_SIZE
      [] c = "FieldChecklistData" -> FieldChecklistData_SIZE
      [] c = "FieldChecklistSegment" -> FieldChecklistSegment_SIZE
      [] c = "FieldFrameCounter" -> FieldFrameCounter_SIZE
      [] c = "FieldTimestamp" -> FieldTimestamp_SIZE
      [] c = "FieldVehicleName" -> FieldVehicleName_SIZE
      [] c = "FieldUserQuestionResponse" -> FieldUserQuestionResponse_SIZE
      [] c = "FieldChecklistResponses" -> FieldChecklistResponses_SIZE
      [] c = "FieldUWBPosition" -> FieldUWBPosition_SIZE
      [] c = "FieldGPSPosition" -> FieldGPSPosition_SIZE

\* F(value), by the name of the field class
NewField(c, value) ==
    CASE c = "FieldUID" -> FieldUID(value)
      [] c = "FieldTagID" -> FieldTagID(value)
      [] c = "FieldUsername" -> FieldUsername(value)
      [] c = "FieldPayloadLength" -> FieldPayloadLength(value)
      [] c = "FieldUserQuestion" -> FieldUserQuestion(value)
      [] c = "FieldUserQuestionSegment" -> FieldUserQuestionSegment(value)
      [] c = "FieldChecklistData" -> FieldChecklistData(value)
      [] c = "FieldChecklistSegment" -> FieldChecklistSegment(value)
      [] c = "FieldFrameCounter" -> FieldFrameCounter(value)
      [] c = "FieldTimestamp" -> FieldTimestamp(value)
      [] c = "FieldVehicleName" -> FieldVehicleName(value)
      [] c = "FieldUserQuestionResponse" -> FieldUserQuestionResponse(value)
      [] c = "FieldChecklistResponses" -> FieldChecklistResponses(value)
      [] c = "FieldUWBPosition" -> FieldUWBPosition(value)
      [] c = "FieldGPSPosition" -> FieldGPSPosition(value)

\* field.value
value_of(self) == IF T(self.v) = "unset" THEN Err("AttributeError") ELSE Ok(self.v)

----------------------------------------------------------------------------
(* message_codecs.py: what every message class does the same way.          *)
(* A message object is [cls, a]: a maps attribute names to field objects   *)
(* or plain values.                                                        *)

Msg(c, a) == [cls |-> c, a |-> a]

\* F(x) when the call producing x returned, its exception otherwise

\* if isinstance(value, str): value = json.loads(value)
LoadIfStr(value) == IF T(value) \in {"str", "json"} THEN JsonLoads(value) ELSE Ok(value)

\* if next(it) != self.TYPE: raise ValueError(self.TYPE)
CheckType(b, TYPE) ==
    IF Len(b) < 1 THEN Err("StopIteration")
    ELSE IF b[1] # TYPE THEN Err("ValueError")
    ELSE Ok(PyNone)

\* next(it) with the iterator standing at position pos
NextByte(b, pos) == IF pos <= Len(b) THEN Ok(PyInt(b[pos])) ELSE Err("StopIteration")

\* bytes(islice(it, n))
Take(b, pos, n) == Ok(PyBytes(Slice(b, pos, n)))

\* assert next(it, None) is None
NoTrailing(b, pos) == IF pos <= Len(b) THEN Err("AssertionError") ELSE Ok(PyNone)

CheckName_present(value, NAME) ==
    IF Has(value, "type") THEN Ok(PyNone) ELSE Err("ValueError")

\* if 'type' in value and value['type'] != self.NAME: raise ValueError
CheckName(value, NAME) ==
    IF Has(value, "type") /\ ~PyEq(V(value)[PySym("type")], PySym(NAME))
    THEN Err("ValueError") ELSE Ok(PyNone)

\* a constructor branch: the calls in source order, the first that raises ends
\* it; otherwise the attributes are set from the calls that names points to
Build(c, calls, names) ==
    LET e == FirstErr(calls)
    IN  IF ~e.ok THEN e
        ELSE Ok(Msg(c, [k \in DOMAIN names |-> calls[names[k]].val]))

IntOf(r) == Bind(PyIntOf, r)
BoolOf(r) == IF r.ok THEN Ok(PyBool(Truthy(r.val))) ELSE r

\* bytes([x])
OneByte(x) == LET r == ByteOf(x) IN IF r.ok THEN Ok(PyBytes(r.val)) ELSE r

RECURSIVE Flatten(_)
Flatten(ps) == IF Len(ps) = 0 THEN <<>> ELSE V(ps[1].val) \o Flatten(Tail(ps))

\* out = p1; out += p2; ...: the first part that raises, or that is not bytes, ends it
Concat(ps) ==
    LET bad == {i \in 1..Len(ps) : ~ps[i].ok \/ T(ps[i].val) # "bytes"}
    IN  IF bad = {} THEN Ok(PyBytes(Flatten(ps)))
        ELSE LET i == CHOOSE k \in bad : \A j \in bad : k <= j
             IN  IF ps[i].ok THEN Err("TypeError") ELSE ps[i]

\* self.<field>.value inside as_dict
ValueOf(f) == value_of(f)

\* a dict display {k1: e1, ...} whose entries are call results
DictOf(rs) ==
    LET bad == {k \in DOMAIN rs : ~rs[k].ok}
    IN  IF bad = {} THEN Ok(MkDict([k \in DOMAIN rs |-> rs[k].val]))
        ELSE rs[CHOOSE k \in bad : TRUE]

----------------------------------------------------------------------------
(* MsgLoginRequest  [ type(1) | uid(4) | tagid(8) ] *)

MsgLoginRequest_TYPE == 1
MsgLoginRequest_NAME == "login_request"

MsgLoginRequest(value0) ==
    LET init(value) ==
        LET b == V(value)
        IN  IF T(value) = "bytes"
            THEN Build("MsgLoginRequest",
                   <<CheckType(b, MsgLoginRequest_TYPE),
                     Bind(FieldUID, Take(b, 2, FieldUID_SIZE)),
                     Bind(FieldTagID, Take(b, 2 + FieldUID_SIZE, FieldTagID_SIZE)),
                     NoTrailing(b, 2 + FieldUID_SIZE + FieldTagID_SIZE)>>,
                   [uid |-> 2, tagid |-> 3])
            ELSE IF T(value) = "dict"
            THEN Build("MsgLoginRequest",
                   <<CheckName(value, MsgLoginRequest_NAME),
                     Bind(FieldUID, Get(value, "uid")),
                     Bind(FieldTagID, GetOrNone(value, "tagid"))>>,
                   [uid |-> 2, tagid |-> 3])
            ELSE Err("ValueError")
    IN  Bind(init, LoadIfStr(value0))

MsgLoginRequest_as_bytes(self) ==
    Concat(<<OneByte(PyInt(MsgLoginRequest_TYPE)), as_bytes(self.a.uid),
             as_bytes(self.a.tagid)>>)

MsgLoginRequest_as_dict(self) ==
    DictOf([type |-> Ok(PySym(MsgLoginRequest_NAME)), uid |-> ValueOf(self.a.uid),
            tagid |-> ValueOf(self.a.tagid)])

\* json.dumps(self.dict()): the class has no method dict
MsgLoginRequest_as_json(self) == Err("AttributeError")

----------------------------------------------------------------------------
(* MsgLoginResponse  [ type(1) | response(1) | uid(4) | username(16) | profile(1) ] *)

MsgLoginResponse_TYPE == 2
MsgLoginResponse_NAME == "login_response"

MsgLoginResponse(value0) ==
    LET init(value) ==
        LET b == V(value)
        IN  IF T(value) = "bytes"
            THEN Build("MsgLoginResponse",
                   <<CheckType(b, MsgLoginResponse_TYPE),
                     NextByte(b, 2),
                     Bind(FieldUID, Take(b, 3, FieldUID_SIZE)),
                     Bind(FieldUsername, Take(b, 3 + FieldUID_SIZE, FieldUsername_SIZE)),
                     NextByte(b, 3 + FieldUID_SIZE + FieldUsername_SIZE),
                     NoTrailing(b, 4 + FieldUID_SIZE + FieldUsername_SIZE)>>,
                   [response |-> 2, uid |-> 3, username |-> 4, profile |-> 5])
            ELSE IF T(value) = "dict"
            THEN Build("MsgLoginResponse",
                   <<CheckName(value, MsgLoginResponse_NAME),
                     BoolOf(Get(value, "response")),
                     Bind(FieldUsername, GetOrNone(value, "username")),
                     Bind(FieldUID, GetOrNone(value, "uid")),
                     IntOf(Get(value, "profile"))>>,
                   [response |-> 2, uid |-> 4, username |-> 3, profile |-> 5])
            ELSE Err("ValueError")
    IN  Bind(init, LoadIfStr(value0))

MsgLoginResponse_as_bytes(self) ==
    Concat(<<OneByte(PyInt(MsgLoginResponse_TYPE)), OneByte(self.a.response),
             as_bytes(self.a.username), as_bytes(self.a.uid),
             OneByte(self.a.profile)>>)

MsgLoginResponse_as_dict(self) ==
    DictOf([type |-> Ok(PySym(MsgLoginResponse_NAME)), response |-> Ok(self.a.response),
            username |-> ValueOf(self.a.username), uid |-> ValueOf(self.a.uid),
            profile |-> Ok(self.a.profile)])

MsgLoginResponse_as_json(self) == Bind(JsonDumps, MsgLoginResponse_as_dict(self))

----------------------------------------------------------------------------
(* MsgLogoutNotification  [ type(1) | tagid(8) ] *)

MsgLogoutNotification_TYPE == 3
MsgLogoutNotification_NAME == "logout_notification"

MsgLogoutNotification(value0) ==
    LET init(value) ==
        LET b == V(value)
        IN  IF T(value) = "bytes"
            THEN Build("MsgLogoutNotification",
                   <<CheckType(b, MsgLogoutNotification_TYPE),
                     Bind(FieldTagID, Take(b, 2, FieldTagID_SIZE)),
                     NoTrailing(b, 2 + FieldTagID_SIZE)>>,
                   [tagid |-> 2])
            ELSE IF T(value) = "dict"
            THEN Build("MsgLogoutNotification",
                   <<CheckName(value, MsgLogoutNotification_NAME),
                     Bind(FieldTagID, GetOrNone(value, "tagid"))>>,
                   [tagid |-> 2])
            ELSE Err("ValueError")
    IN  Bind(init, LoadIfStr(value0))

MsgLogoutNotification_as_bytes(self) ==
    Concat(<<OneByte(PyInt(MsgLogoutNotification_TYPE)), as_bytes(self.a.tagid)>>)

MsgLogoutNotification_as_dict(self) ==
    DictOf([type |-> Ok(PySym(MsgLogoutNotification_NAME)),
            tagid |-> ValueOf(self.a.tagid)])

MsgLogoutNotification_as_json(self) == Bind(JsonDumps, MsgLogoutNotification_as_dict(self))

----------------------------------------------------------------------------
(* MsgChecklistUpdateStart  [ type(1) | segments(1) | checklist_version(1) | payload_length(2) ] *)

MsgChecklistUpdateStart_TYPE == 5
MsgChecklistUpdateStart_NAME == "checklist_update_start"

MsgChecklistUpdateStart(value0) ==
    LET init(value) ==
        LET b == V(value)
        IN  IF T(value) = "bytes"
            THEN Build("MsgChecklistUpdateStart",
                   <<CheckType(b, MsgChecklistUpdateStart_TYPE),
                     NextByte(b, 2),
                     NextByte(b, 3),
                     Bind(FieldPayloadLength, Take(b, 4, FieldPayloadLength_SIZE)),
                     NoTrailing(b, 4 + FieldPayloadLength_SIZE)>>,
                   [segments |-> 2, checklist_version |-> 3, length |-> 4])
            ELSE IF T(value) = "dict"
            THEN Build("MsgChecklistUpdateStart",
                   <<CheckName(value, MsgChecklistUpdateStart_NAME),
                     IntOf(Get(value, "segments")),
                     IntOf(Get(value, "checklist_version")),
                     Bind(FieldPayloadLength, Get(value, "length"))>>,
                   [segments |-> 2, checklist_version |-> 3, length |-> 4])
            ELSE Err("ValueError")
    IN  Bind(init, LoadIfStr(value0))

MsgChecklistUpdateStart_as_bytes(self) ==
    Concat(<<OneByte(PyInt(MsgChecklistUpdateStart_TYPE)), OneByte(self.a.segments),
             OneByte(self.a.checklist_version), as_bytes(self.a.length)>>)

MsgChecklistUpdateStart_as_dict(self) ==
    DictOf([type |-> Ok(PySym(MsgChecklistUpdateStart_NAME)),
            segments |-> Ok(self.a.segments),
            checklist_version |-> Ok(self.a.checklist_version),
            length |-> ValueOf(self.a.length)])

MsgChecklistUpdateStart_as_json(self) ==
    Bind(JsonDumps, MsgChecklistUpdateStart_as_dict(self))

----------------------------------------------------------------------------
(* MsgChecklistUpdateSegment  [ type(1) | checklist_version(1) | seq_no(1) | segment(31) ] *)

MsgChecklistUpdateSegment_TYPE == 6
MsgChecklistUpdateSegment_NAME == "checklist_update_segment"

MsgChecklistUpdateSegment(value0) ==
    LET init(value) ==
        LET b == V(value)
        IN  IF T(value) = "bytes"
            THEN Build("MsgChecklistUpdateSegment",
                   <<CheckType(b, MsgChecklistUpdateSegment_TYPE),
                     NextByte(b, 2),
                     NextByte(b, 3),
                     Bind(FieldChecklistSegment, Take(b, 4, FieldChecklistSegment_SIZE)),
                     NoTrailing(b, 4 + FieldChecklistSegment_SIZE)>>,
                   [checklist_version |-> 2, seq_no |-> 3, segment |-> 4])
            ELSE IF T(value) = "dict"
            THEN Build("MsgChecklistUpdateSegment",
                   <<CheckName(value, MsgChecklistUpdateSegment_NAME),
                     IntOf(Get(value, "checklist_version")),
                     IntOf(Get(value, "seq_no")),
                     Bind(FieldChecklistSegment, Get(value, "segment"))>>,
                   [checklist_version |-> 2, seq_no |-> 3, segment |-> 4])
            ELSE Err("ValueError")
    IN  Bind(init, LoadIfStr(value0))

MsgChecklistUpdateSegment_as_bytes(self) ==
    Concat(<<OneByte(PyInt(MsgChecklistUpdateSegment_TYPE)),
             OneByte(self.a.checklist_version), OneByte(self.a.seq_no),
             as_bytes(self.a.segment)>>)

MsgChecklistUpdateSegment_as_dict(self) ==
    DictOf([type |-> Ok(PySym(MsgChecklistUpdateSegment_NAME)),
            checklist_version |-> Ok(self.a.checklist_version),
            seq_no |-> Ok(self.a.seq_no),
            segment |-> ValueOf(self.a.segment)])

MsgChecklistUpdateSegment_as_json(self) ==
    Bind(JsonDumps, MsgChecklistUpdateSegment_as_dict(self))

----------------------------------------------------------------------------
(* MsgChecklistUpdate  [ type(1) | checklist_version(1) | checklist_data(4096) ] *)

MsgChecklistUpdate_TYPE == 7
MsgChecklistUpdate_NAME == "checklist_update"

\* the bytes branch names fc.FieldChecklistdData, which field_codecs does not define
MsgChecklistUpdate(value0) ==
    LET init(value) ==
        LET b == V(value)
        IN  IF T(value) = "bytes"
            THEN FirstErr(
                   <<CheckType(b, MsgChecklistUpdate_TYPE),
                     Err("AttributeError")>>)
            ELSE IF T(value) = "dict"
            THEN Build("MsgChecklistUpdate",
                   <<CheckName(value, MsgChecklistUpdate_NAME),
                     IntOf(Get(value, "checklist_version")),
                     Bind(FieldChecklistData, Get(value, "checklist_data"))>>,
                   [checklist_version |-> 2, checklist_data |-> 3])
            ELSE Err("ValueError")
    IN  Bind(init, LoadIfStr(value0))

MsgChecklistUpdate_as_bytes(self) ==
    Concat(<<OneByte(PyInt(MsgChecklistUpdate_TYPE)), OneByte(self.a.checklist_version),
             as_bytes(self.a.checklist_data)>>)

MsgChecklistUpdate_as_dict(self) ==
    DictOf([type |-> Ok(PySym(MsgChecklistUpdate_NAME)),
            checklist_version |-> Ok(self.a.checklist_version),
            checklist_data |-> ValueOf(self.a.checklist_data)])

MsgChecklistUpdate_as_json(self) == Bind(JsonDumps, MsgChecklistUpdate_as_dict(self))

----------------------------------------------------------------------------
(* MsgChecklistResponses  [ type(1) | tagid(8) | responses | checklist_version(1) ] *)

MsgChecklistResponses_TYPE == 8
MsgChecklistResponses_NAME == "checklist_responses"

MsgChecklistResponses(value0) ==
    LET init(value) ==
        LET b == V(value)
        IN  IF T(value) = "bytes"
            THEN Build("MsgChecklistResponses",
                   <<CheckType(b, MsgChecklistResponses_TYPE),
                     Bind(FieldTagID, Take(b, 2, FieldTagID_SIZE)),
                     Bind(FieldChecklistResponses, Take(b, 2 + FieldTagID_SIZE, FieldChecklistResponses_SIZE)),
                     NextByte(b, 2 + FieldTagID_SIZE + FieldChecklistResponses_SIZE),
                     NoTrailing(b, 3 + FieldTagID_SIZE + FieldChecklistResponses_SIZE)>>,
                   [tagid |-> 2, responses |-> 3, checklist_version |-> 4])
            ELSE IF T(value) = "dict"
            THEN Build("MsgChecklistResponses",
                   <<CheckName(value, MsgChecklistResponses_NAME),
                     Bind(FieldTagID, GetOrNone(value, "tagid")),
                     Bind(FieldChecklistResponses, Get(value, "responses")),
                     IntOf(Get(value, "checklist_version"))>>,
                   [tagid |-> 2, responses |-> 3, checklist_version |-> 4])
            ELSE Err("ValueError")
    IN  Bind(init, LoadIfStr(value0))

MsgChecklistResponses_as_bytes(self) ==
    Concat(<<OneByte(PyInt(MsgChecklistResponses_TYPE)), as_bytes(self.a.tagid),
             as_bytes(self.a.responses), OneByte(self.a.checklist_version)>>)

MsgChecklistResponses_as_dict(self) ==
    DictOf([type |-> Ok(PySym(MsgChecklistResponses_NAME)),
            tagid |-> ValueOf(self.a.tagid),
            responses |-> ValueOf(self.a.responses),
            checklist_version |-> Ok(self.a.checklist_version)])

MsgChecklistResponses_as_json(self) == Bind(JsonDumps, MsgChecklistResponses_as_dict(self))

----------------------------------------------------------------------------
(* MsgChecklistVersionNotification  [ type(1) | checklist_version(1) ] *)

MsgChecklistVersionNotification_TYPE == 10
MsgChecklistVersionNotification_NAME == "checklist_version_notification"

MsgChecklistVersionNotification(value0) ==
    LET init(value) ==
        LET b == V(value)
        IN  IF T(value) = "bytes"
            THEN Build("MsgChecklistVersionNotification",
                   <<CheckType(b, MsgChecklistVersionNotification_TYPE),
                     NextByte(b, 2),
                     NoTrailing(b, 3)>>,
                   [checklist_version |-> 2])
            ELSE IF T(value) = "dict"
            THEN Build("MsgChecklistVersionNotification",
                   <<CheckName(value, MsgChecklistVersionNotification_NAME),
                     IntOf(Get(value, "checklist_version"))>>,
                   [checklist_version |-> 2])
            ELSE Err("ValueError")
    IN  Bind(init, LoadIfStr(value0))

MsgChecklistVersionNotification_as_bytes(self) ==
    Concat(<<OneByte(PyInt(MsgChecklistVersionNotification_TYPE)),
             OneByte(self.a.checklist_version)>>)

MsgChecklistVersionNotification_as_dict(self) ==
    DictOf([type |-> Ok(PySym(MsgChecklistVersionNotification_NAME)),
            checklist_version |-> Ok(self.a.checklist_version)])

MsgChecklistVersionNotification_as_json(self) ==
    Bind(JsonDumps, MsgChecklistVersionNotification_as_dict(self))

----------------------------------------------------------------------------
(* MsgUserQuestionStart  [ type(1) | question_id(1) | segments(1) | payload_length(2) ] *)

MsgUserQuestionStart_TYPE == 11
MsgUserQuestionStart_NAME == "user_question_start"

MsgUserQuestionStart(value0) ==
    LET init(value) ==
        LET b == V(value)
        IN  IF T(value) = "bytes"
            THEN Build("MsgUserQuestionStart",
                   <<CheckType(b, MsgUserQuestionStart_TYPE),
                     NextByte(b, 2),
                     NextByte(b, 3),
                     Bind(FieldPayloadLength, Take(b, 4, FieldPayloadLength_SIZE)),
                     NoTrailing(b, 4 + FieldPayloadLength_SIZE)>>,
                   [question_id |-> 2, segments |-> 3, length |-> 4])
            ELSE IF T(value) = "dict"
            THEN Build("MsgUserQuestionStart",
                   <<CheckName(value, MsgUserQuestionStart_NAME),
                     IntOf(Get(value, "question_id")),
                     IntOf(Get(value, "segments")),
                     Bind(FieldPayloadLength, Get(value, "length"))>>,
                   [question_id |-> 2, segments |-> 3, length |-> 4])
            ELSE Err("ValueError")
    IN  Bind(init, LoadIfStr(value0))

MsgUserQuestionStart_as_bytes(self) ==
    Concat(<<OneByte(PyInt(MsgUserQuestionStart_TYPE)), OneByte(self.a.question_id),
             OneByte(self.a.segments), as_bytes(self.a.length)>>)

MsgUserQuestionStart_as_dict(self) ==
    DictOf([type |-> Ok(PySym(MsgUserQuestionStart_NAME)),
            question_id |-> Ok(self.a.question_id),
            segments |-> Ok(self.a.segments),
            length |-> ValueOf(self.a.length)])

MsgUserQuestionStart_as_json(self) == Bind(JsonDumps, MsgUserQuestionStart_as_dict(self))

----------------------------------------------------------------------------
(* MsgUserQuestionSegment  [ type(1) | question_id(1) | seq_no(1) | data(31) ] *)

MsgUserQuestionSegment_TYPE == 12
MsgUserQuestionSegment_NAME == "user_question_segment"
MsgUserQuestionSegment_DATA_LENGTH == 30

\* both branches name fc.FieldUserQuestionData, which field_codecs does not
\* define: the attribute lookup raises once the fields before it are read
MsgUserQuestionSegment(value0) ==
    LET init(value) ==
        LET b == V(value)
        IN  IF T(value) = "bytes"
            THEN FirstErr(
                   <<CheckType(b, MsgUserQuestionSegment_TYPE),
                     NextByte(b, 2),
                     NextByte(b, 3),
                     Err("AttributeError")>>)
            ELSE IF T(value) = "dict"
            THEN FirstErr(
                   <<CheckName(value, MsgUserQuestionSegment_NAME),
                     IntOf(Get(value, "question_id")),
                     IntOf(Get(value, "seq_no")),
                     Err("AttributeError")>>)
            ELSE Err("ValueError")
    IN  Bind(init, LoadIfStr(value0))

MsgUserQuestionSegment_as_bytes(self) ==
    Concat(<<OneByte(PyInt(MsgUserQuestionSegment_TYPE)), OneByte(self.a.question_id),
             OneByte(self.a.seq_no), as_bytes(self.a.data)>>)

MsgUserQuestionSegment_as_dict(self) ==
    DictOf([type |-> Ok(PySym(MsgUserQuestionSegment_NAME)),
            question_id |-> Ok(self.a.question_id),
            seq_no |-> Ok(self.a.seq_no),
            data |-> ValueOf(self.a.data)])

MsgUserQuestionSegment_as_json(self) ==
    Bind(JsonDumps, MsgUserQuestionSegment_as_dict(self))

----------------------------------------------------------------------------
(* MsgUserQuestion  [ type(1) | question_id(1) | user_question(...) ] *)

MsgUserQuestion_TYPE == 13
MsgUserQuestion_NAME == "user_question"

MsgUserQuestion(value0) ==
    LET init(value) ==
        LET b == V(value)
        IN  IF T(value) = "bytes"
            THEN Build("MsgUserQuestion",
                   <<CheckType(b, MsgUserQuestion_TYPE),
                     NextByte(b, 2),
                     Bind(FieldUserQuestion, Take(b, 3, FieldUserQuestion_SIZE)),
                     NoTrailing(b, 3 + FieldUserQuestion_SIZE)>>,
                   [question_id |-> 2, user_question |-> 3])
            ELSE IF T(value) = "dict"
            THEN Build("MsgUserQuestion",
                   <<CheckName(value, MsgUserQuestion_NAME),
                     IntOf(Get(value, "question_id")),
                     Bind(FieldUserQuestion, Get(value, "user_question"))>>,
                   [question_id |-> 2, user_question |-> 3])
            ELSE Err("ValueError")
    IN  Bind(init, LoadIfStr(value0))

MsgUserQuestion_as_bytes(self) ==
    Concat(<<OneByte(PyInt(MsgUserQuestion_TYPE)), OneByte(self.a.question_id),
             as_bytes(self.a.user_question)>>)

MsgUserQuestion_as_dict(self) ==
    DictOf([type |-> Ok(PySym(MsgUserQuestion_NAME)),
            question_id |-> Ok(self.a.question_id),
            user_question |-> ValueOf(self.a.user_question)])

MsgUserQuestion_as_json(self) == Bind(JsonDumps, MsgUserQuestion_as_dict(self))

----------------------------------------------------------------------------
(* MsgUserQuestionResponse  [ type(1) | tagid(8) | question_id(1) | responses ] *)

MsgUserQuestionResponse_TYPE == 14
MsgUserQuestionResponse_NAME == "user_question_response"

MsgUserQuestionResponse(value0) ==
    LET init(value) ==
        LET b == V(value)
        IN  IF T(value) = "bytes"
            THEN Build("MsgUserQuestionResponse",
                   <<CheckType(b, MsgUserQuestionResponse_TYPE),
                     Bind(FieldTagID, Take(b, 2, FieldTagID_SIZE)),
                     NextByte(b, 2 + FieldTagID_SIZE),
                     \* the field is given next(it), one int, not the bytes of its slot
                     Bind(FieldUserQuestionResponse, NextByte(b, 3 + FieldTagID_SIZE)),
                     NoTrailing(b, 4 + FieldTagID_SIZE)>>,
                   [tagid |-> 2, question_id |-> 3, responses |-> 4])
            ELSE IF T(value) = "dict"
            THEN Build("MsgUserQuestionResponse",
                   <<CheckName(value, MsgUserQuestionResponse_NAME),
                     Bind(FieldTagID, GetOrNone(value, "tagid")),
                     IntOf(Get(value, "question_id")),
                     Bind(FieldUserQuestionResponse, Get(value, "responses"))>>,
                   [tagid |-> 2, question_id |-> 3, responses |-> 4])
            ELSE Err("ValueError")
    IN  Bind(init, LoadIfStr(value0))

MsgUserQuestionResponse_as_bytes(self) ==
    Concat(<<OneByte(PyInt(MsgUserQuestionResponse_TYPE)), as_bytes(self.a.tagid),
             OneByte(self.a.question_id), as_bytes(self.a.responses)>>)

MsgUserQuestionResponse_as_dict(self) ==
    DictOf([type |-> Ok(PySym(MsgUserQuestionResponse_NAME)),
            tagid |-> ValueOf(self.a.tagid),
            question_id |-> Ok(self.a.question_id),
            responses |-> ValueOf(self.a.responses)])

MsgUserQuestionResponse_as_json(self) ==
    Bind(JsonDumps, MsgUserQuestionResponse_as_dict(self))

----------------------------------------------------------------------------
(* MsgImpactReport  [ type(1) | tagid(8) | severity(1) | accel_direction(1) ] *)

MsgImpactReport_TYPE == 15
MsgImpactReport_NAME == "impact_report"

MsgImpactReport(value0) ==
    LET init(value) ==
        LET b == V(value)
        IN  IF T(value) = "bytes"
            THEN Build("MsgImpactReport",
                   <<CheckType(b, MsgImpactReport_TYPE),
                     Bind(FieldTagID, Take(b, 2, FieldTagID_SIZE)),
                     NextByte(b, 2 + FieldTagID_SIZE),
                     NextByte(b, 3 + FieldTagID_SIZE),
                     NoTrailing(b, 4 + FieldTagID_SIZE)>>,
                   [tagid |-> 2, severity |-> 3, accel_direction |-> 4])
            ELSE IF T(value) = "dict"
            THEN Build("MsgImpactReport",
                   <<CheckName(value, MsgImpactReport_NAME),
                     Bind(FieldTagID, GetOrNone(value, "tagid")),
                     IntOf(Get(value, "severity")),
                     IntOf(Get(value, "accel_direction"))>>,
                   [tagid |-> 2, severity |-> 3, accel_direction |-> 4])
            ELSE Err("ValueError")
    IN  Bind(init, LoadIfStr(value0))

\* the last line reads the global name accel_direction, not self.accel_direction
MsgImpactReport_as_bytes(self) ==
    Concat(<<OneByte(PyInt(MsgImpactReport_TYPE)), as_bytes(self.a.tagid),
             OneByte(self.a.severity), Err("NameError")>>)

MsgImpactReport_as_dict(self) ==
    DictOf([type |-> Ok(PySym(MsgImpactReport_NAME)),
            tagid |-> ValueOf(self.a.tagid),
            severity |-> Ok(self.a.severity),
            accel_direction |-> Ok(self.a.accel_direction)])

MsgImpactReport_as_json(self) == Bind(JsonDumps, MsgImpactReport_as_dict(self))

----------------------------------------------------------------------------
(* MsgVehicleReport  [ type(1) | tagid(8) | frame_counter(2) | uwbpos | gpspos ] *)

MsgVehicleReport_TYPE == 16
MsgVehicleReport_NAME == "vehicle_report"

MsgVehicleReport(value0) ==
    LET init(value) ==
        LET b == V(value)
            p1 == 2 + FieldTagID_SIZE
            p2 == p1 + FieldFrameCounter_SIZE
            p3 == p2 + FieldUWBPosition_SIZE
        IN  IF T(value) = "bytes"
            THEN Build("MsgVehicleReport",
                   <<CheckType(b, MsgVehicleReport_TYPE),
                     Bind(FieldTagID, Take(b, 2, FieldTagID_SIZE)),
                     Bind(FieldFrameCounter, Take(b, p1, FieldFrameCounter_SIZE)),
                     Bind(FieldUWBPosition, Take(b, p2, FieldUWBPosition_SIZE)),
                     Bind(FieldGPSPosition, Take(b, p3, FieldGPSPosition_SIZE)),
                     NoTrailing(b, p3 + FieldGPSPosition_SIZE)>>,
                   [tagid |-> 2, frame_counter |-> 3, uwbpos |-> 4, gpspos |-> 5])
            ELSE IF T(value) = "dict"
            THEN Build("MsgVehicleReport",
                   <<CheckName(value, MsgVehicleReport_NAME),
                     Bind(FieldTagID, GetOrNone(value, "tagid")),
                     Bind(FieldFrameCounter, Get(value, "frame_counter")),
                     Bind(FieldUWBPosition, Get(value, "uwbpos")),
                     Bind(FieldGPSPosition, Get(value, "gpspos"))>>,
                   [tagid |-> 2, frame_counter |-> 3, uwbpos |-> 4, gpspos |-> 5])
            ELSE Err("ValueError")
    IN  Bind(init, LoadIfStr(value0))

MsgVehicleReport_as_bytes(self) ==
    Concat(<<OneByte(PyInt(MsgVehicleReport_TYPE)), as_bytes(self.a.tagid),
             as_bytes(self.a.frame_counter), as_bytes(self.a.uwbpos),
             as_bytes(self.a.gpspos)>>)

MsgVehicleReport_as_dict(self) ==
    DictOf([type |-> Ok(PySym(MsgVehicleReport_NAME)),
            tagid |-> ValueOf(self.a.tagid),
            frame_counter |-> ValueOf(self.a.frame_counter),
            uwbpos |-> ValueOf(self.a.uwbpos),
            gpspos |-> ValueOf(self.a.gpspos)])

MsgVehicleReport_as_json(self) == Bind(JsonDumps, MsgVehicleReport_as_dict(self))

----------------------------------------------------------------------------
(* MsgSetBlockStatus  [ type(1) | tagid(8) | block_status(1) ] *)

MsgSetBlockStatus_TYPE == 17
MsgSetBlockStatus_NAME == "set_block_status"

MsgSetBlockStatus(value0) ==
    LET init(value) ==
        LET b == V(value)
        IN  IF T(value) = "bytes"
            THEN Build("MsgSetBlockStatus",
                   <<CheckType(b, MsgSetBlockStatus_TYPE),
                     Bind(FieldTagID, Take(b, 2, FieldTagID_SIZE)),
                     BoolOf(NextByte(b, 2 + FieldTagID_SIZE)),
                     NoTrailing(b, 3 + FieldTagID_SIZE)>>,
                   [tagid |-> 2, block_status |-> 3])
            ELSE IF T(value) = "dict"
            THEN Build("MsgSetBlockStatus",
                   <<CheckName(value, MsgSetBlockStatus_NAME),
                     Bind(FieldTagID, GetOrNone(value, "tagid")),
                     BoolOf(Get(value, "block_status"))>>,
                   [tagid |-> 2, block_status |-> 3])
            ELSE Err("ValueError")
    IN  Bind(init, LoadIfStr(value0))

MsgSetBlockStatus_as_bytes(self) ==
    Concat(<<OneByte(PyInt(MsgSetBlockStatus_TYPE)), as_bytes(self.a.tagid),
             OneByte(self.a.block_status)>>)

MsgSetBlockStatus_as_dict(self) ==
    DictOf([type |-> Ok(PySym(MsgSetBlockStatus_NAME)),
            tagid |-> ValueOf(self.a.tagid),
            block_status |-> Ok(self.a.block_status)])

MsgSetBlockStatus_as_json(self) == Bind(JsonDumps, MsgSetBlockStatus_as_dict(self))

----------------------------------------------------------------------------
(* MsgTimeRequest  [ type(1) | tagid(8) ] *)

MsgTimeRequest_TYPE == 18
MsgTimeRequest_NAME == "time_request"

MsgTimeRequest(value0) ==
    LET init(value) ==
        LET b == V(value)
        IN  IF T(value) = "bytes"
            THEN Build("MsgTimeRequest",
                   <<CheckType(b, MsgTimeRequest_TYPE),
                     Bind(FieldTagID, Take(b, 2, FieldTagID_SIZE)),
                     NoTrailing(b, 2 + FieldTagID_SIZE)>>,
                   [tagid |-> 2])
            ELSE IF T(value) = "dict"
            THEN Build("MsgTimeRequest",
                   <<CheckName(value, MsgTimeRequest_NAME),
                     Bind(FieldTagID, GetOrNone(value, "tagid"))>>,
                   [tagid |-> 2])
            ELSE Err("ValueError")
    IN  Bind(init, LoadIfStr(value0))

MsgTimeRequest_as_bytes(self) ==
    Concat(<<OneByte(PyInt(MsgTimeRequest_TYPE)), as_bytes(self.a.tagid)>>)

MsgTimeRequest_as_dict(self) ==
    DictOf([type |-> Ok(PySym(MsgTimeRequest_NAME)), tagid |-> ValueOf(self.a.tagid)])

MsgTimeRequest_as_json(self) == Bind(JsonDumps, MsgTimeRequest_as_dict(self))

----------------------------------------------------------------------------
(* MsgTimeSet  [ type(1) | timestamp(4) ] *)

MsgTimeSet_TYPE == 19
MsgTimeSet_NAME == "time_set"

MsgTimeSet(value0) ==
    LET init(value) ==
        LET b == V(value)
        IN  IF T(value) = "bytes"
            THEN Build("MsgTimeSet",
                   <<CheckType(b, MsgTimeSet_TYPE),
                     Bind(FieldTimestamp, Take(b, 2, FieldTimestamp_SIZE)),
                     NoTrailing(b, 2 + FieldTimestamp_SIZE)>>,
                   [timestamp |-> 2])
            ELSE IF T(value) = "dict"
            THEN Build("MsgTimeSet",
                   <<CheckName(value, MsgTimeSet_NAME),
                     Bind(FieldTimestamp, Get(value, "timestamp"))>>,
                   [timestamp |-> 2])
            ELSE Err("ValueError")
    IN  Bind(init, LoadIfStr(value0))

MsgTimeSet_as_bytes(self) ==
    Concat(<<OneByte(PyInt(MsgTimeSet_TYPE)), as_bytes(self.a.timestamp)>>)

MsgTimeSet_as_dict(self) ==
    DictOf([type |-> Ok(PySym(MsgTimeSet_NAME)), timestamp |-> ValueOf(self.a.timestamp)])

MsgTimeSet_as_json(self) == Bind(JsonDumps, MsgTimeSet_as_dict(self))

----------------------------------------------------------------------------
(* MsgTagConfig  [ type(1) | sensitivity(1) | update_rate(1) | vehicle_name(16) ] *)

MsgTagConfig_TYPE == 20
MsgTagConfig_NAME == "tag_config"

\* the constructor has no str branch: JSON text falls to the final else
MsgTagConfig(value) ==
    LET b == V(value)
    IN  IF T(value) = "bytes"
        THEN Build("MsgTagConfig",
               <<CheckType(b, MsgTagConfig_TYPE),
                 NextByte(b, 2),
                 NextByte(b, 3),
                 Bind(FieldVehicleName, Take(b, 4, FieldVehicleName_SIZE)),
                 NoTrailing(b, 4 + FieldVehicleName_SIZE)>>,
               [crash_sens |-> 2, report_rate |-> 3, vehicle_name |-> 4])
        ELSE IF T(value) = "dict"
        THEN Build("MsgTagConfig",
               <<CheckName(value, MsgTagConfig_NAME),
                 IntOf(Get(value, "crash_sens")),
                 IntOf(Get(value, "report_rate")),
                 Bind(FieldVehicleName, Get(value, "vehicle_name"))>>,
               [crash_sens |-> 2, report_rate |-> 3, vehicle_name |-> 4])
        ELSE Err("ValueError")

MsgTagConfig_as_bytes(self) ==
    Concat(<<OneByte(PyInt(MsgTagConfig_TYPE)), OneByte(self.a.crash_sens),
             OneByte(self.a.report_rate), as_bytes(self.a.vehicle_name)>>)

MsgTagConfig_as_dict(self) ==
    DictOf([crash_sens |-> Ok(self.a.crash_sens),
            report_rate |-> Ok(self.a.report_rate),
            vehicle_name |-> ValueOf(self.a.vehicle_name)])

MsgTagConfig_as_json(self) == Bind(JsonDumps, MsgTagConfig_as_dict(self))

----------------------------------------------------------------------------
(* The 18 message classes, and calls through a class or an object *)

Classes ==
    {"MsgLoginRequest", "MsgLoginResponse", "MsgLogoutNotification",
     "MsgChecklistUpdateStart", "MsgChecklistUpdateSegment", "MsgChecklistUpdate",
     "MsgChecklistResponses", "MsgChecklistVersionNotification",
     "MsgUserQuestionStart", "MsgUserQuestionSegment", "MsgUserQuestion",
     "MsgUserQuestionResponse", "MsgImpactReport", "MsgVehicleReport",
     "MsgSetBlockStatus", "MsgTimeRequest", "MsgTimeSet", "MsgTagConfig"}

TYPE(c) ==
    CASE c = "MsgLoginRequest" -> MsgLoginRequest_TYPE
      [] c = "MsgLoginResponse" -> MsgLoginResponse_TYPE
      [] c = "MsgLogoutNotification" -> MsgLogoutNotification_TYPE
      [] c = "MsgChecklistUpdateStart" -> MsgChecklistUpdateStart_TYPE
      [] c = "MsgChecklistUpdateSegment" -> MsgChecklistUpdateSegment_TYPE
      [] c = "MsgChecklistUpdate" -> MsgChecklistUpdate_TYPE
      [] c = "MsgChecklistResponses" -> MsgChecklistResponses_TYPE
      [] c = "MsgChecklistVersionNotification" -> MsgChecklistVersionNotification_TYPE
      [] c = "MsgUserQuestionStart" -> MsgUserQuestionStart_TYPE
      [] c = "MsgUserQuestionSegment" -> MsgUserQuestionSegment_TYPE
      [] c = "MsgUserQuestion" -> MsgUserQuestion_TYPE
      [] c = "MsgUserQuestionResponse" -> MsgUserQuestionResponse_TYPE
      [] c = "MsgImpactReport" -> MsgImpactReport_TYPE
      [] c = "MsgVehicleReport" -> MsgVehicleReport_TYPE
      [] c = "MsgSetBlockStatus" -> MsgSetBlockStatus_TYPE
      [] c = "MsgTimeRequest" -> MsgTimeRequest_TYPE
      [] c = "MsgTimeSet" -> MsgTimeSet_TYPE
      [] c = "MsgTagConfig" -> MsgTagConfig_TYPE

NAME(c) ==
    CASE c = "MsgLoginRequest" -> MsgLoginRequest_NAME
      [] c = "MsgLoginResponse" -> MsgLoginResponse_NAME
      [] c = "MsgLogoutNotification" -> MsgLogoutNotification_NAME
      [] c = "MsgChecklistUpdateStart" -> MsgChecklistUpdateStart_NAME
      [] c = "MsgChecklistUpdateSegment" -> MsgChecklistUpdateSegment_NAME
      [] c = "MsgChecklistUpdate" -> MsgChecklistUpdate_NAME
      [] c = "MsgChecklistResponses" -> MsgChecklistResponses_NAME
      [] c = "MsgChecklistVersionNotification" -> MsgChecklistVersionNotification_NAME
      [] c = "MsgUserQuestionStart" -> MsgUserQuestionStart_NAME
      [] c = "MsgUserQuestionSegment" -> MsgUserQuestionSegment_NAME
      [] c = "MsgUserQuestion" -> MsgUserQuestion_NAME
      [] c = "MsgUserQuestionResponse" -> MsgUserQuestionResponse_NAME
      [] c = "MsgImpactReport" -> MsgImpactReport_NAME
      [] c = "MsgVehicleReport" -> MsgVehicleReport_NAME
      [] c = "MsgSetBlockStatus" -> MsgSetBlockStatus_NAME
      [] c = "MsgTimeRequest" -> MsgTimeRequest_NAME
      [] c = "MsgTimeSet" -> MsgTimeSet_NAME
      [] c = "MsgTagConfig" -> MsgTagConfig_NAME

\* c(value): the constructor of class c
New(c, value) ==
    CASE c = "MsgLoginRequest" -> MsgLoginRequest(value)
      [] c = "MsgLoginResponse" -> MsgLoginResponse(value)
      [] c = "MsgLogoutNotification" -> MsgLogoutNotification(value)
      [] c = "MsgChecklistUpdateStart" -> MsgChecklistUpdateStart(value)
      [] c = "MsgChecklistUpdateSegment" -> MsgChecklistUpdateSegment(value)
      [] c = "MsgChecklistUpdate" -> MsgChecklistUpdate(value)
      [] c = "MsgChecklistResponses" -> MsgChecklistResponses(value)
      [] c = "MsgChecklistVersionNotification" -> MsgChecklistVersionNotification(value)
      [] c = "MsgUserQuestionStart" -> MsgUserQuestionStart(value)
      [] c = "MsgUserQuestionSegment" -> MsgUserQuestionSegment(value)
      [] c = "MsgUserQuestion" -> MsgUserQuestion(value)
      [] c = "MsgUserQuestionResponse" -> MsgUserQuestionResponse(value)
      [] c = "MsgImpactReport" -> MsgImpactReport(value)
      [] c = "MsgVehicleReport" -> MsgVehicleReport(value)
      [] c = "MsgSetBlockStatus" -> MsgSetBlockStatus(value)
      [] c = "MsgTimeRequest" -> MsgTimeRequest(value)
      [] c = "MsgTimeSet" -> MsgTimeSet(value)
      [] c = "MsgTagConfig" -> MsgTagConfig(value)

\* self.as_bytes()
msg_as_bytes(self) ==
    CASE self.cls = "MsgLoginRequest" -> MsgLoginRequest_as_bytes(self)
      [] self.cls = "MsgLoginResponse" -> MsgLoginResponse_as_bytes(self)
      [] self.cls = "MsgLogoutNotification" -> MsgLogoutNotification_as_bytes(self)
      [] self.cls = "MsgChecklistUpdateStart" -> MsgChecklistUpdateStart_as_bytes(self)
      [] self.cls = "MsgChecklistUpdateSegment" -> MsgChecklistUpdateSegment_as_bytes(self)
      [] self.cls = "MsgChecklistUpdate" -> MsgChecklistUpdate_as_bytes(self)
      [] self.cls = "MsgChecklistResponses" -> MsgChecklistResponses_as_bytes(self)
      [] self.cls = "MsgChecklistVersionNotification"
           -> MsgChecklistVersionNotification_as_bytes(self)
      [] self.cls = "MsgUserQuestionStart" -> MsgUserQuestionStart_as_bytes(self)
      [] self.cls = "MsgUserQuestionSegment" -> MsgUserQuestionSegment_as_bytes(self)
      [] self.cls = "MsgUserQuestion" -> MsgUserQuestion_as_bytes(self)
      [] self.cls = "MsgUserQuestionResponse" -> MsgUserQuestionResponse_as_bytes(self)
      [] self.cls = "MsgImpactReport" -> MsgImpactReport_as_bytes(self)
      [] self.cls = "MsgVehicleReport" -> MsgVehicleReport_as_bytes(self)
      [] self.cls = "MsgSetBlockStatus" -> MsgSetBlockStatus_as_bytes(self)
      [] self.cls = "MsgTimeRequest" -> MsgTimeRequest_as_bytes(self)
      [] self.cls = "MsgTimeSet" -> MsgTimeSet_as_bytes(self)
      [] self.cls = "MsgTagConfig" -> MsgTagConfig_as_bytes(self)

\* self.as_dict()
msg_as_dict(self) ==
    CASE self.cls = "MsgLoginRequest" -> MsgLoginRequest_as_dict(self)
      [] self.cls = "MsgLoginResponse" -> MsgLoginResponse_as_dict(self)
      [] self.cls = "MsgLogoutNotification" -> MsgLogoutNotification_as_dict(self)
      [] self.cls = "MsgChecklistUpdateStart" -> MsgChecklistUpdateStart_as_dict(self)
      [] self.cls = "MsgChecklistUpdateSegment" -> MsgChecklistUpdateSegment_as_dict(self)
      [] self.cls = "MsgChecklistUpdate" -> MsgChecklistUpdate_as_dict(self)
      [] self.cls = "MsgChecklistResponses" -> MsgChecklistResponses_as_dict(self)
      [] self.cls = "MsgChecklistVersionNotification"
           -> MsgChecklistVersionNotification_as_dict(self)
      [] self.cls = "MsgUserQuestionStart" -> MsgUserQuestionStart_as_dict(self)
      [] self.cls = "MsgUserQuestionSegment" -> MsgUserQuestionSegment_as_dict(self)
      [] self.cls = "MsgUserQuestion" -> MsgUserQuestion_as_dict(self)
      [] self.cls = "MsgUserQuestionResponse" -> MsgUserQuestionResponse_as_dict(self)
      [] self.cls = "MsgImpactReport" -> MsgImpactReport_as_dict(self)
      [] self.cls = "MsgVehicleReport" -> MsgVehicleReport_as_dict(self)
      [] self.cls = "MsgSetBlockStatus" -> MsgSetBlockStatus_as_dict(self)
      [] self.cls = "MsgTimeRequest" -> MsgTimeRequest_as_dict(self)
      [] self.cls = "MsgTimeSet" -> MsgTimeSet_as_dict(self)
      [] self.cls = "MsgTagConfig" -> MsgTagConfig_as_dict(self)

\* self.as_json()
msg_as_json(self) ==
    CASE self.cls = "MsgLoginRequest" -> MsgLoginRequest_as_json(self)
      [] self.cls = "MsgLoginResponse" -> MsgLoginResponse_as_json(self)
      [] self.cls = "MsgLogoutNotification" -> MsgLogoutNotification_as_json(self)
      [] self.cls = "MsgChecklistUpdateStart" -> MsgChecklistUpdateStart_as_json(self)
      [] self.cls = "MsgChecklistUpdateSegment" -> MsgChecklistUpdateSegment_as_json(self)
      [] self.cls = "MsgChecklistUpdate" -> MsgChecklistUpdate_as_json(self)
      [] self.cls = "MsgChecklistResponses" -> MsgChecklistResponses_as_json(self)
      [] self.cls = "MsgChecklistVersionNotification"
           -> MsgChecklistVersionNotification_as_json(self)
      [] self.cls = "MsgUserQuestionStart" -> MsgUserQuestionStart_as_json(self)
      [] self.cls = "MsgUserQuestionSegment" -> MsgUserQuestionSegment_as_json(self)
      [] self.cls = "MsgUserQuestion" -> MsgUserQuestion_as_json(self)
      [] self.cls = "MsgUserQuestionResponse" -> MsgUserQuestionResponse_as_json(self)
      [] self.cls = "MsgImpactReport" -> MsgImpactReport_as_json(self)
      [] self.cls = "MsgVehicleReport" -> MsgVehicleReport_as_json(self)
      [] self.cls = "MsgSetBlockStatus" -> MsgSetBlockStatus_as_json(self)
      [] self.cls = "MsgTimeRequest" -> MsgTimeRequest_as_json(self)
      [] self.cls = "MsgTimeSet" -> MsgTimeSet_as_json(self)
      [] self.cls = "MsgTagConfig" -> MsgTagConfig_as_json(self)

----------------------------------------------------------------------------
(* parse_dict, parse_bytes, parse_json *)

\* the if/elif chain of parse_dict, in its order
parse_dict_chain ==
    <<"MsgLoginRequest", "MsgLoginResponse", "MsgLogoutNotification",
      "MsgChecklistUpdateStart", "MsgChecklistUpdateSegment", "MsgChecklistUpdate",
      "MsgChecklistResponses", "MsgChecklistVersionNotification",
      "MsgUserQuestionStart", "MsgUserQuestionSegment", "MsgUserQuestion",
      "MsgUserQuestionResponse", "MsgImpactReport", "MsgVehicleReport", "MsgTagConfig",
      "MsgSetBlockStatus", "MsgTimeRequest", "MsgTimeSet">>

parse_dict(m) ==
    IF T(m) # "dict" THEN Err("TypeError")
    ELSE IF ~Has(m, "type") THEN Err("KeyError")
    ELSE LET hit == {i \in 1..Len(parse_dict_chain) :
                        PyEq(V(m)[PySym("type")], PySym(NAME(parse_dict_chain[i])))}
         IN  IF hit = {} THEN Err("Exception")
             ELSE New(parse_dict_chain[CHOOSE i \in hit : \A j \in hit : i <= j], m)

\* the classes that are values of the dict typecode_to_msg
typecode_to_msg ==
    {"MsgLoginRequest", "MsgLoginResponse", "MsgLogoutNotification",
     "MsgChecklistUpdateStart", "MsgChecklistUpdateSegment", "MsgChecklistResponses",
     "MsgChecklistVersionNotification", "MsgUserQuestionStart",
     "MsgUserQuestionSegment", "MsgUserQuestionResponse", "MsgImpactReport",
     "MsgVehicleReport", "MsgTagConfig", "MsgSetBlockStatus", "MsgTimeRequest",
     "MsgTimeSet"}

\* typecode_to_msg.get(code, MsgLoginRequest): an unknown code falls to a default
Lookup_default(code) ==
    IF \E c \in typecode_to_msg : TYPE(c) = code
    THEN Ok(CHOOSE c \in typecode_to_msg : TYPE(c) = code)
    ELSE Ok("MsgLoginRequest")

\* typecode_to_msg[code]
Lookup(code) ==
    IF \E c \in typecode_to_msg : TYPE(c) = code
    THEN Ok(CHOOSE c \in typecode_to_msg : TYPE(c) = code)
    ELSE Err("KeyError")

parse_bytes(m) ==
    IF Len(V(m)) = 0 THEN Err("IndexError")
    ELSE LET c == Lookup(V(m)[1])
         IN  IF c.ok THEN New(c.val, m) ELSE c

parse_json(m) == Bind(parse_dict, JsonLoads(m))

----------------------------------------------------------------------------
(* checklist_splitter, user_question_splitter *)

RECURSIVE SplitLoop(_, _, _)
\* the while True loop: pos is where the iterator stands
SplitLoop(databytes, pos, segments) ==
    LET segment == Slice(databytes, pos, FieldChecklistSegment_SIZE)
    IN  IF Len(segment) < FieldChecklistSegment_SIZE
        THEN Append(segments,
                    segment \o Zeros(FieldChecklistSegment_SIZE - Len(segment)))
        ELSE SplitLoop(databytes, pos + FieldChecklistSegment_SIZE,
                       Append(segments, segment))

\* a start message that declares the padded length instead of len(databytes)
SplitStart_padded(segments, databytes, checklist_version) ==
    MsgChecklistUpdateStart(MkDict([segments |-> PyInt(Len(segments)),
                                    checklist_version |-> checklist_version,
                                    length |-> PyInt(Len(segments)
                                                  * FieldChecklistSegment_SIZE)]))

\* the start message appended to output
SplitStart(segments, databytes, checklist_version) ==
    MsgChecklistUpdateStart(MkDict([segments |-> PyInt(Len(segments)),
                                    checklist_version |-> checklist_version,
                                    length |-> PyInt(Len(databytes))]))

\* segment messages numbered from 1 instead of from 0
SplitSegment_from1(segments, i, checklist_version) ==
    MsgChecklistUpdateSegment(MkDict([checklist_version |-> checklist_version,
                                      seq_no |-> PyInt(i),
                                      segment |-> PyBytes(segments[i])]))

\* the message appended for enumerate(segments)[i] (i counted from 1)
SplitSegment(segments, i, checklist_version) ==
    MsgChecklistUpdateSegment(MkDict([checklist_version |-> checklist_version,
                                      seq_no |-> PyInt(i - 1),
                                      segment |-> PyBytes(segments[i])]))

\* output: the start message, then one message per segment
SplitOutput(segments, databytes, checklist_version) ==
    <<SplitStart(segments, databytes, checklist_version)>> \o
    [i \in 1..Len(segments) |-> SplitSegment(segments, i, checklist_version)]

\* the list returned when every constructor call returned, else what was raised
ListOf(rs) ==
    LET e == FirstErr(rs)
    IN  IF ~e.ok THEN e ELSE Ok([i \in 1..Len(rs) |-> rs[i].val])

checklist_splitter(checklist_data, checklist_version) ==
    LET split(databytes) ==
            ListOf(SplitOutput(SplitLoop(databytes, 1, <<>>), databytes,
                               checklist_version))
        encode(text) == split(Utf8Encode(text))
    IN  Bind(encode, JsonDumpsText(checklist_data))

\* segment = islice(...) is an iterator: len(segment) raises on the first pass
user_question_splitter(user_question_data, question_id) ==
    LET text == JsonDumpsText(user_question_data)
    IN  IF ~text.ok THEN text ELSE Err("TypeError")

----------------------------------------------------------------------------
(* Inputs of the codec calls *)

MaxSeed == 2
MaxFill == 2
MaxDelta == 2
MaxStrDoc == 64
MaxListDoc == 11
MaxVersion == 2
MaxUnknownLen == 2

Letters(n) == [i \in 1..n |-> 97 + (i % 26)]
\* a name of seed characters, of the full field width for the last seed
NameOf(seed, size) == PyStr(Letters(IF seed = MaxSeed THEN size ELSE seed))
BoolList(n) == PyList([i \in 1..n |-> PyBool(i % 2 = 1)])
DigitList(n) == PyList([i \in 1..n |-> PyInt(i % 10)])
Responses(seed) ==
    IF seed = 1
    THEN PyDict((PyInt(3) :> PyInt(2)) @@ (PyInt(7) :> PyInt(0)))
    ELSE PyDict([k \in {PyInt(seed + i) : i \in 0..(NUM_RESPONSES - 1)} |->
                    PyInt(V(k) % 3)])

\* the fixed layout width of class c: the type byte and the field widths
Width(c) ==
    CASE c = "MsgLoginRequest" -> 1 + FieldUID_SIZE + FieldTagID_SIZE
      [] c = "MsgLoginResponse" -> 1 + 1 + FieldUsername_SIZE + FieldUID_SIZE + 1
      [] c = "MsgLogoutNotification" -> 1 + FieldTagID_SIZE
      [] c = "MsgChecklistUpdateStart" -> 1 + 1 + 1 + FieldPayloadLength_SIZE
      [] c = "MsgChecklistUpdateSegment" -> 1 + 1 + 1 + FieldChecklistSegment_SIZE
      [] c = "MsgChecklistUpdate" -> 1 + 1 + FieldChecklistData_SIZE
      [] c = "MsgChecklistResponses"
           -> 1 + FieldTagID_SIZE + FieldChecklistResponses_SIZE + 1
      [] c = "MsgChecklistVersionNotification" -> 1 + 1
      [] c = "MsgUserQuestionStart" -> 1 + 1 + 1 + FieldPayloadLength_SIZE
      [] c = "MsgUserQuestionSegment" -> 1 + 1 + 1 + FieldUserQuestionSegment_SIZE
      [] c = "MsgUserQuestion" -> 1 + 1 + FieldUserQuestion_SIZE
      [] c = "MsgUserQuestionResponse"
           -> 1 + FieldTagID_SIZE + 1 + FieldUserQuestionResponse_SIZE
      [] c = "MsgImpactReport" -> 1 + FieldTagID_SIZE + 1 + 1
      [] c = "MsgVehicleReport"
           -> 1 + FieldTagID_SIZE + FieldFrameCounter_SIZE + FieldUWBPosition_SIZE
                + FieldGPSPosition_SIZE
      [] c = "MsgSetBlockStatus" -> 1 + FieldTagID_SIZE + 1
      [] c = "MsgTimeRequest" -> 1 + FieldTagID_SIZE
      [] c = "MsgTimeSet" -> 1 + FieldTimestamp_SIZE
      [] c = "MsgTagConfig" -> 1 + 1 + 1 + FieldVehicleName_SIZE

\* a valid, in-range structured value of class c
ValidValue(c, seed) ==
    LET uid == PyInt(seed * 257)
        tagid == PyInt(seed * 65537 + 7)
        small == PyInt(seed + 1)
    IN  CASE c = "MsgLoginRequest" -> MkDict([uid |-> uid, tagid |-> tagid])
          [] c = "MsgLoginResponse"
               -> MkDict([response |-> PyBool(seed # 0),
                          username |-> NameOf(seed, FieldUsername_SIZE),
                          uid |-> uid, profile |-> small])
          [] c = "MsgLogoutNotification" -> MkDict([tagid |-> tagid])
          [] c = "MsgChecklistUpdateStart"
               -> MkDict([segments |-> small, checklist_version |-> small,
                          length |-> PyInt(seed * 300)])
          [] c = "MsgChecklistUpdateSegment"
               -> MkDict([checklist_version |-> small, seq_no |-> PyInt(seed),
                          segment |-> IF seed = 1
                                      THEN PyList([i \in 1..FieldChecklistSegment_SIZE
                                                     |-> PyInt(i)])
                                      ELSE PyBytes([i \in 1..FieldChecklistSegment_SIZE
                                                     |-> seed + i])])
          [] c = "MsgChecklistUpdate"
               -> MkDict([checklist_version |-> small,
                          checklist_data |-> DigitList(seed)])
          [] c = "MsgChecklistResponses"
               -> MkDict([tagid |-> tagid, responses |-> Responses(seed),
                          checklist_version |-> small])
          [] c = "MsgChecklistVersionNotification"
               -> MkDict([checklist_version |-> small])
          [] c = "MsgUserQuestionStart"
               -> MkDict([question_id |-> small, segments |-> small,
                          length |-> PyInt(seed * 300)])
          [] c = "MsgUserQuestionSegment"
               -> MkDict([question_id |-> small, seq_no |-> PyInt(seed),
                          data |-> PyBytes([i \in 1..FieldUserQuestionSegment_SIZE
                                              |-> seed + i])])
          [] c = "MsgUserQuestion"
               -> MkDict([question_id |-> small,
                          user_question |-> PyStr(Letters(seed))])
          [] c = "MsgUserQuestionResponse"
               -> MkDict([tagid |-> tagid, question_id |-> small,
                          responses |-> BoolList(seed)])
          [] c = "MsgImpactReport"
               -> MkDict([tagid |-> tagid, severity |-> small,
                          accel_direction |-> PyInt(seed)])
          [] c = "MsgVehicleReport"
               -> MkDict([tagid |-> tagid, frame_counter |-> PyInt(seed * 300),
                          uwbpos |-> MkDict([xpos |-> PyFloat(1234 * seed, 1000),
                                             ypos |-> PyFloat(-2500, 1000),
                                             zpos |-> PyFloat(0, 1000)]),
                          gpspos |-> MkDict([lat |-> PyFloat(407128000, 10000000),
                                             lon |-> PyFloat(-740060000 - seed,
                                                             10000000)])])
          [] c = "MsgSetBlockStatus"
               -> MkDict([tagid |-> tagid, block_status |-> PyBool(seed # 0)])
          [] c = "MsgTimeRequest" -> MkDict([tagid |-> tagid])
          [] c = "MsgTimeSet" -> MkDict([timestamp |-> PyInt(seed * 100000)])
          [] c = "MsgTagConfig"
               -> MkDict([crash_sens |-> small, report_rate |-> PyInt(seed),
                          vehicle_name |-> NameOf(seed, FieldVehicleName_SIZE)])

\* a buffer of type c and length n: the type code, fill bytes of value fill, then
\* zero bytes (a NUL-terminated empty document "[]" in the two JSON layouts)
Buffer(c, fill, n) ==
    PyBytes([i \in 1..n |->
        IF i = 1 THEN TYPE(c)
        ELSE IF c \in {"MsgChecklistUpdate", "MsgUserQuestion"}
        THEN (IF i = 2 THEN fill ELSE IF i = 3 THEN 91 ELSE IF i = 4 THEN 93 ELSE 0)
        ELSE IF i <= 1 + fill THEN fill ELSE 0])

AssignedCodes == {TYPE(c) : c \in Classes}

ValueInputs ==
    {[kind |-> "value", cls |-> c, v |-> ValidValue(c, seed)] :
        c \in Classes, seed \in 0..MaxSeed}

BufferInputs ==
    {[kind |-> "buffer", cls |-> c, v |-> Buffer(c, fill, Width(c) + d)] :
        c \in Classes, fill \in 0..MaxFill, d \in (-MaxDelta)..MaxDelta}

UnknownInputs ==
    {[kind |-> "unknown", cls |-> "", v |-> PyBytes(<<code>> \o Zeros(n))] :
        code \in (0..255) \ AssignedCodes, n \in 0..MaxUnknownLen}

\* structured values whose type key names no message type, or that have none
MaxForeign == 2
ForeignInputs ==
    {[kind |-> "foreign", cls |-> "",
      v |-> IF n = 0 THEN MkDict([tagid |-> PyInt(7)])
            ELSE MkDict([type |-> PyStr(Letters(n)), tagid |-> PyInt(7)])] :
        n \in 0..MaxForeign}

\* values that do not fit the width of the field that has to carry them: an
\* integer field given one, or a message whose one-byte attribute attr is one
MaxExcess == 2
IntegerFields ==
    {"FieldUID", "FieldTagID", "FieldPayloadLength", "FieldFrameCounter",
     "FieldTimestamp"}
ByteAttrs == {"checklist_version", "segments", "seq_no", "question_id", "profile"}
RECURSIVE Pow256(_)
Pow256(n) == IF n = 0 THEN 1 ELSE 256 * Pow256(n - 1)
Override(d, attr, val) ==
    PyDict([k \in DOMAIN V(d) |-> IF k = PySym(attr) THEN val ELSE V(d)[k]])
RangeInputs ==
    {[kind |-> "field_range", cls |-> c, v |-> PyInt(-e)] :
        c \in IntegerFields, e \in 1..MaxExcess}
    \cup {[kind |-> "field_range", cls |-> c, v |-> PyInt(Pow256(SIZE(c)) - 1 + e)] :
        c \in {f \in IntegerFields : SIZE(f) <= 2}, e \in 1..MaxExcess}
    \cup UNION {{[kind |-> "range", cls |-> c,
                  v |-> Override(ValidValue(c, 0), attr, PyInt(n))] :
                    attr \in {a \in ByteAttrs : Has(ValidValue(c, 0), a)},
                    n \in ((-MaxExcess)..(-1)) \cup (256..(255 + MaxExcess))} :
                c \in Classes}

\* values given to the field classes themselves
MaxFieldInt == 2
MaxGps == 24
TextFields == {"FieldUsername", "FieldVehicleName"}
BinaryFields == {"FieldUserQuestionSegment", "FieldChecklistSegment"}
JSONFields == {"FieldUserQuestion", "FieldChecklistData"}
\* n booleans: alternating from True, alternating from False, all True, all False
BoolPattern(n, p) ==
    PyList([i \in 1..n |-> PyBool(IF p < 2 THEN (i + p) % 2 = 1 ELSE p = 2)])
Padded(b, size) == PyBytes(SubSeq(b \o Zeros(size), 1, size))
GpsValue(lat, lon) ==
    MkDict([lat |-> PyFloat(lat, GPS_CONV_FACTOR), lon |-> PyFloat(lon, GPS_CONV_FACTOR)])
FieldValues(c) ==
    IF c \in IntegerFields
    THEN {PyInt(n) : n \in (0..MaxFieldInt)
                         \cup {255, 256, Pow256(Min(SIZE(c), 3)) - 1}
                         \cup (IF SIZE(c) >= 4 THEN {2147483647} ELSE {})}
         \cup {PyBool(TRUE), PyNone, Padded(<<1, 2>>, SIZE(c))}
    ELSE IF c \in TextFields
    THEN {PyStr(Letters(n)) : n \in 0..SIZE(c)}
         \cup {PyStr([i \in 1..n |-> 233]) : n \in {1, SIZE(c) \div 2}}
         \cup {PyNone, Padded(Letters(3), SIZE(c)), PyBytes(Letters(SIZE(c)))}
    ELSE IF c \in BinaryFields
    THEN {PyStr(Letters(n)) : n \in {0, 3, SIZE(c)}}
         \cup {PyNone, PyBytes([i \in 1..SIZE(c) |-> i]),
               PyList([i \in 1..SIZE(c) |-> PyInt(i)])}
    ELSE IF c \in JSONFields
    THEN {PyStr(Letters(n)) : n \in {0, 1, SIZE(c) - 3, SIZE(c) - 2, SIZE(c) - 1}}
         \cup {DigitList(n) : n \in 0..MaxFieldInt}
         \cup {PyInt(7), PyBool(TRUE), PyNone, Padded(<<91, 93>>, SIZE(c)),
               PyBytes(<<34>> \o Letters(SIZE(c) - 2) \o <<34>>)}
    ELSE IF c = "FieldUserQuestionResponse"
    THEN {BoolPattern(n, p) : n \in 0..(SIZE(c) - 1 + MaxExcess), p \in 0..3}
         \cup {PyNone, Padded(<<2, 1, 0>>, SIZE(c))}
    ELSE IF c = "FieldChecklistResponses"
    THEN {Responses(seed) : seed \in 0..MaxSeed}
         \cup {Padded(<<2 * 32 + 3>>, SIZE(c))}
    ELSE IF c = "FieldUWBPosition"
    THEN {MkDict([xpos |-> PyFloat(1234, 1000), ypos |-> PyFloat(-2500, 1000),
                  zpos |-> PyFloat(0, 1000)]),
          MkDict([xpos |-> PyInt(1), ypos |-> PyInt(-2), zpos |-> PyInt(0)]),
          Padded(<<210, 4, 0>>, SIZE(c))}
    ELSE {GpsValue(407128000, -740060000), Padded(<<21>>, SIZE(c))}
         \cup {GpsValue(k, -k) : k \in 0..MaxGps}
FieldInputs ==
    UNION {{[kind |-> "field", cls |-> c, v |-> x] : x \in FieldValues(c)} :
             c \in FieldClasses}

\* inputs that name another message type than the class they are given to: a
\* buffer of the class's layout behind another type code (of any length from 1
\* around the class's width), and a valid field set with a type key that is not NAME
WrongCodes(c) == {0, TYPE(c) - 1, TYPE(c) + 1, 255} \ {TYPE(c)}
WithCode(b, code) == PyBytes([i \in 1..Len(V(b)) |-> IF i = 1 THEN code ELSE V(b)[i]])
WithType(d, t) ==
    PyDict([k \in DOMAIN V(d) \cup {PySym("type")} |->
              IF k = PySym("type") THEN t ELSE V(d)[k]])
WrongTypes(c) ==
    {PySym(NAME(d)) : d \in Classes \ {c}}
    \cup {PyStr(Letters(1)), PyInt(TYPE(c)), PyNone}
MismatchInputs ==
    UNION {{[kind |-> "wrong_code", cls |-> c,
             v |-> WithCode(Buffer(c, fill, Width(c) + d), code)] :
               fill \in 0..MaxFill,
               d \in {e \in (-MaxDelta)..MaxDelta : Width(c) + e >= 1},
               code \in WrongCodes(c)} : c \in Classes}
    \cup UNION {{[kind |-> "wrong_type", cls |-> c,
                  v |-> WithType(ValidValue(c, seed), t)] :
                    seed \in 0..MaxSeed, t \in WrongTypes(c)} : c \in Classes}

\* values of a kind the field class has no isinstance branch for, given to the
\* field class itself or, in place of one attribute of a valid field set, to the
\* message class; and the shortest buffer MsgUserQuestionResponse reads completely
FieldKind(c) ==
    IF c \in IntegerFields THEN "FieldInteger"
    ELSE IF c \in TextFields THEN "FieldText"
    ELSE IF c \in BinaryFields THEN "FieldBinary"
    ELSE IF c \in JSONFields THEN "FieldJSON"
    ELSE IF c = "FieldUserQuestionResponse" THEN "FieldVarLenList"
    ELSE c
SupportedKinds(kind) ==
    CASE kind = "FieldInteger" -> {"int", "bool", "bytes", "none"}
      [] kind = "FieldText" -> {"str", "bytes", "none"}
      [] kind = "FieldBinary" -> {"list", "bytes", "str", "none"}
      [] kind = "FieldJSON" ->
           {"int", "bool", "bytes", "none", "str", "list", "dict", "float"}
      [] kind = "FieldVarLenList" -> {"bytes", "list"}
      [] OTHER -> {"dict", "bytes"}
OtherKinds ==
    {PyInt(5), PyStr(Letters(2)), PyList(<<PyBool(TRUE)>>), PyNone, PyFloat(3, 2),
     PyDict(PyStr(Letters(3)) :> PyInt(1))}
UnsupportedInputs ==
    UNION {{[kind |-> "field_unsupported", cls |-> c, v |-> x] :
              x \in {y \in OtherKinds : T(y) \notin SupportedKinds(FieldKind(c))}} :
           c \in FieldClasses}
    \cup UNION {{[kind |-> "unsupported", cls |-> c,
                  v |-> Override(ValidValue(c, 0), attr, x)] :
                    attr \in {V(k) : k \in DOMAIN V(ValidValue(c, 0))},
                    x \in OtherKinds} : c \in Classes}
    \cup {[kind |-> "unsupported", cls |-> "MsgUserQuestionResponse",
           v |-> PyBytes(<<MsgUserQuestionResponse_TYPE>> \o Zeros(FieldTagID_SIZE)
                          \o <<1, n>>)] : n \in 0..MaxFill}

DocInputs ==
    {[kind |-> "doc", cls |-> "", v |-> d, version |-> PyInt(ver)] :
        d \in {PyStr(Letters(n)) : n \in 0..MaxStrDoc}
              \cup {DigitList(n) : n \in 0..MaxListDoc},
        ver \in 0..MaxVersion}

----------------------------------------------------------------------------
(* The calls, as a state machine: one input, then the calls made on it *)

None == Err("none")

\* client = None; the client socket of the n-th connection accepted is <<n>>
NoClient == <<>>

\* the program is not running
NotStarted ==
    /\ client = NoClient /\ pkt = <<>> /\ tpos = "off"
    /\ my_q = <<>> /\ mgr_q = <<>>
    /\ checklists = <<>> /\ picked_questions = <<>> /\ keyb_queue = <<>>
    /\ mpos = "off"
    /\ link = [state |-> "idle", peer |-> 0] /\ waiting = 0
    /\ wire = <<>> /\ sent = <<>>
    /\ budget = 0

Init ==
    /\ \/ input \in ValueInputs
       \/ input \in BufferInputs
       \/ input \in UnknownInputs
       \/ input \in DocInputs
       \/ input \in ForeignInputs
       \/ input \in RangeInputs
       \/ input \in FieldInputs
       \/ input \in MismatchInputs
       \/ input \in UnsupportedInputs
    /\ cls = input.cls
    /\ op = "start"
    /\ msg = None
    /\ out = None
    /\ back = None
    /\ NotStarted

\* m = M(value), for a valid value, for one with an attribute that does not fit,
\* for one with the type key of another message, or for one with an attribute of
\* another kind
Construct ==
    /\ op = "start" /\ input.kind \in {"value", "range", "wrong_type", "unsupported"}
    /\ msg' = New(cls, input.v)
    /\ op' = IF input.kind = "value" THEN "new"
             ELSE IF input.kind = "range" THEN "new_range"
             ELSE IF input.kind = "wrong_type" THEN "new_wrong_type"
             ELSE "new_unsupported"
    /\ UNCHANGED <<cls, input, out, back>>
    /\ UNCHANGED sysvars

\* m.as_bytes()
AsBytes ==
    /\ op \in {"new", "new_range"} /\ input.kind \in {"value", "range"}
    /\ msg.ok
    /\ out' = msg_as_bytes(msg.val)
    /\ op' = IF op = "new" THEN "as_bytes" ELSE "range_as_bytes"
    /\ UNCHANGED <<cls, input, msg, back>>
    /\ UNCHANGED sysvars

\* M(m.as_bytes())
FromBytes ==
    /\ op = "as_bytes" /\ out.ok
    /\ back' = New(cls, out.val)
    /\ op' = "from_bytes"
    /\ UNCHANGED <<cls, input, msg, out>>
    /\ UNCHANGED sysvars

\* m.as_dict()
AsDict ==
    /\ op = "new" /\ msg.ok
    /\ out' = msg_as_dict(msg.val)
    /\ op' = "as_dict"
    /\ UNCHANGED <<cls, input, msg, back>>
    /\ UNCHANGED sysvars

\* M(m.as_dict())
FromDict ==
    /\ op = "as_dict" /\ out.ok
    /\ back' = New(cls, out.val)
    /\ op' = "from_dict"
    /\ UNCHANGED <<cls, input, msg, out>>
    /\ UNCHANGED sysvars

\* m.as_json()
AsJson ==
    /\ op = "new" /\ msg.ok
    /\ out' = msg_as_json(msg.val)
    /\ op' = "as_json"
    /\ UNCHANGED <<cls, input, msg, back>>
    /\ UNCHANGED sysvars

\* M(m.as_json())
FromJson ==
    /\ op = "as_json" /\ out.ok
    /\ back' = New(cls, out.val)
    /\ op' = "from_json"
    /\ UNCHANGED <<cls, input, msg, out>>
    /\ UNCHANGED sysvars

\* M(buffer)
ConstructFromBuffer ==
    /\ op = "start" /\ input.kind \in {"buffer", "wrong_code"}
    /\ msg' = New(cls, input.v)
    /\ op' = IF input.kind = "buffer" THEN "from_buffer" ELSE "from_wrong_code"
    /\ UNCHANGED <<cls, input, out, back>>
    /\ UNCHANGED sysvars

\* parse_bytes(buffer)
ParseBytes ==
    /\ op = "start" /\ input.kind \in {"buffer", "unknown"}
    /\ back' = parse_bytes(input.v)
    /\ op' = "parse_bytes"
    /\ UNCHANGED <<cls, input, msg, out>>
    /\ UNCHANGED sysvars

\* checklist_splitter(doc, version)
Split ==
    /\ op = "start" /\ input.kind = "doc"
    /\ out' = LET r == checklist_splitter(input.v, input.version)
              IN  IF r.ok THEN Ok(PyList(r.val)) ELSE r
    /\ op' = "split"
    /\ UNCHANGED <<cls, input, msg, back>>
    /\ UNCHANGED sysvars

\* user_question_splitter(doc, question_id)
SplitQuestion ==
    /\ op = "start" /\ input.kind = "doc"
    /\ out' = LET r == user_question_splitter(input.v, input.version)
              IN  IF r.ok THEN Ok(PyList(r.val)) ELSE r
    /\ op' = "split_question"
    /\ UNCHANGED <<cls, input, msg, back>>
    /\ UNCHANGED sysvars

\* parse_dict(m.as_dict()), or parse_dict of a given structured value
ParseDict ==
    /\ \/ op = "as_dict" /\ out.ok
       \/ op = "start" /\ input.kind = "foreign"
    /\ back' = parse_dict(IF op = "as_dict" THEN out.val ELSE input.v)
    /\ op' = "parse_dict"
    /\ UNCHANGED <<cls, input, msg, out>>
    /\ UNCHANGED sysvars

\* f = F(value), for a value of the field or for an integer that does not fit
FieldNew ==
    /\ op = "start" /\ input.kind \in {"field", "field_range", "field_unsupported"}
    /\ msg' = NewField(cls, input.v)
    /\ op' = IF input.kind = "field" THEN "field_new"
             ELSE IF input.kind = "field_range" THEN "new_range"
             ELSE "new_unsupported"
    /\ UNCHANGED <<cls, input, out, back>>
    /\ UNCHANGED sysvars

\* f.as_bytes()
FieldAsBytes ==
    /\ op \in {"field_new", "new_range"} /\ input.kind \in {"field", "field_range"}
    /\ msg.ok
    /\ out' = as_bytes(msg.val)
    /\ op' = IF op = "field_new" THEN "field_as_bytes" ELSE "range_as_bytes"
    /\ UNCHANGED <<cls, input, msg, back>>
    /\ UNCHANGED sysvars

\* F(f.as_bytes())
FieldDecode ==
    /\ op = "field_as_bytes" /\ out.ok
    /\ back' = NewField(cls, out.val)
    /\ op' = "field_decode"
    /\ UNCHANGED <<cls, input, msg, out>>
    /\ UNCHANGED sysvars

Next ==
    \/ Construct
    \/ AsBytes
    \/ FromBytes
    \/ AsDict
    \/ FromDict
    \/ AsJson
    \/ FromJson
    \/ ConstructFromBuffer
    \/ ParseBytes
    \/ Split
    \/ SplitQuestion
    \/ ParseDict
    \/ FieldNew
    \/ FieldAsBytes
    \/ FieldDecode

Spec == Init /\ [][Next]_vars

----------------------------------------------------------------------------
(* main.py and userterminal.py: the control process (Main), the transport   *)
(* loop (UserTerminal._subproc), the two queues between them, and their     *)
(* surroundings: the peer on the radio link and the keyboard.                *)
(*                                                                         *)
(* The text a message's as_json() returns is [json |-> tree] as above;      *)
(* text.encode() is [encoded |-> tree], a bytes object.  A packet is the    *)
(* sequence of the chunks recv() returned for it.                           *)

PyEncoded(tree) == [encoded |-> tree]

\* the object is a message object (an instance of one of the Msg classes)
IsMsgObject(x) == "cls" \in DOMAIN x

\* str(x) of an int or None
PyStrOf(x) ==
    IF T(x) = "int"
    THEN PyStr(IF V(x) < 0 THEN <<45>> \o DigitsOf(-V(x)) ELSE DigitsOf(V(x)))
    ELSE PyStr(<<78, 111, 110, 101>>)

\* the configuration file: cfg['userdb'] (uid "1" and uid "7"),
\* cfg['checklist_questions'] and cfg['checklist_num_questions']
cfg_userdb ==
    (PyStr(<<49>>) :> [username |-> PyStr(Letters(2)), profile |-> PyInt(2)])
    @@ (PyStr(<<55>>) :> [username |-> PyStr(Letters(3)), profile |-> PyInt(0)])
cfg_checklist_questions == <<PyStr(Letters(1)), PyStr(Letters(2))>>
cfg_checklist_num_questions == 1

\* what the peer and the keyboard together do at most in one run: connection
\* requests, texts sent and lines typed
MaxEvents == 2

\* random.sample(range(n), k): k distinct indices, in any order
Samples(n, k) ==
    {s \in [1..k -> 0..(n - 1)] : \A i, j \in 1..k : s[i] = s[j] => i = j}

\* os.urandom(1)[0]
RandomBytes == {0, 255}

\* the entries of the two queues
Received(m) == [type |-> "user_received", msg |-> m]
Malformed(raw, e) == [type |-> "user_received_malformed", msg |-> raw, error |-> e]
Undelivered(m) == [type |-> "user_undelivered", msg |-> m]

\* ---- the control process ----

\* the control process goes on with the next part of its loop, or an exception
\* leaves the loop: Main.__exit__ then terminates the transport process (an
\* exception in Main.__init__ is raised before the with block is entered)
Continue(next) == mpos' = next /\ tpos' = tpos
Fail(started) == mpos' = "dead" /\ tpos' = IF started THEN "terminated" ELSE tpos

\* self.ut.send(item) with the item the calls r have built, if they did not raise
Put(r, next, started) ==
    IF r.ok THEN my_q' = Append(my_q, r.val) /\ Continue(next)
    ELSE my_q' = my_q /\ Fail(started)

\* calls whose result is only logged
Log(r, next) == my_q' = my_q /\ IF r.ok THEN Continue(next) ELSE Fail(TRUE)

\* Main.send_current_checklist: the message it hands to self.ut.send
send_current_checklist(version, picked) ==
    Bind(LAMBDA checklist_msg :
             Bind(LAMBDA text : Ok(checklist_msg),
                  MsgChecklistUpdate_as_json(checklist_msg)),
         MsgChecklistUpdate(MkDict(
             [checklist_version |-> PyInt(version),
              checklist_data |->
                  PyList([i \in 1..Len(picked) |->
                             cfg_checklist_questions[picked[i] + 1]])])))

\* create_new_checklist keeping only the newest checklist
create_new_checklist_replace(sample, next, started) ==
    /\ picked_questions' = sample
    /\ checklists' = <<sample>>
    /\ Put(send_current_checklist(Len(checklists) + 1, sample), next, started)

\* Main.create_new_checklist, random.sample having returned sample
create_new_checklist(sample, next, started) ==
    /\ picked_questions' = sample
    /\ checklists' = Append(checklists, sample)
    /\ Put(send_current_checklist(Len(checklists) + 1, sample), next, started)

\* LoginResponse looking the uid up without str(): no key of the database matches
LoginResponse_int_key(uid) ==
    IF uid \in DOMAIN cfg_userdb
    THEN MsgLoginResponse(MkDict(
             [response |-> PyBool(TRUE), uid |-> uid,
              username |-> cfg_userdb[uid].username,
              profile |-> cfg_userdb[uid].profile]))
    ELSE MsgLoginResponse(MkDict(
             [response |-> PyBool(FALSE), uid |-> uid,
              username |-> PyStr(<<>>), profile |-> PyInt(255)]))

\* the reply to a login request for uid
LoginResponse(uid) ==
    IF PyStrOf(uid) \in DOMAIN cfg_userdb
    THEN MsgLoginResponse(MkDict(
             [response |-> PyBool(TRUE), uid |-> uid,
              username |-> cfg_userdb[PyStrOf(uid)].username,
              profile |-> cfg_userdb[PyStrOf(uid)].profile]))
    ELSE MsgLoginResponse(MkDict(
             [response |-> PyBool(FALSE), uid |-> uid,
              username |-> PyStr(<<>>), profile |-> PyInt(255)]))

\* process_msg_from_terminal replying to every version notification
process_msg_from_terminal_resend(m) ==
    IF m.cls = "MsgLoginRequest"
    THEN Put(Bind(LoginResponse, value_of(m.a.uid)), "keyboard", TRUE)
    ELSE IF m.cls = "MsgChecklistResponses"
    THEN Log(MsgChecklistResponses_as_dict(m), "keyboard")
    ELSE IF m.cls = "MsgChecklistVersionNotification"
    THEN IF ~MsgChecklistVersionNotification_as_dict(m).ok
         THEN Log(MsgChecklistVersionNotification_as_dict(m), "keyboard")
         ELSE Put(send_current_checklist(Len(checklists), picked_questions),
                  "keyboard", TRUE)
    ELSE IF m.cls = "MsgUserQuestionResponse"
    THEN Log(MsgUserQuestionResponse_as_dict(m), "keyboard")
    ELSE IF m.cls = "MsgImpactReport"
    THEN Log(MsgImpactReport_as_dict(m), "keyboard")
    ELSE \* MsgSetBlockStatus, MsgLogoutNotification: printed or logged;
         \* any other class: logged as unexpected
         my_q' = my_q /\ Continue("keyboard")

\* Main.process_msg_from_terminal
process_msg_from_terminal(m) ==
    IF m.cls = "MsgLoginRequest"
    THEN Put(Bind(LoginResponse, value_of(m.a.uid)), "keyboard", TRUE)
    ELSE IF m.cls = "MsgChecklistResponses"
    THEN Log(MsgChecklistResponses_as_dict(m), "keyboard")
    ELSE IF m.cls = "MsgChecklistVersionNotification"
    THEN IF ~MsgChecklistVersionNotification_as_dict(m).ok
         THEN Log(MsgChecklistVersionNotification_as_dict(m), "keyboard")
         ELSE IF ~PyEq(m.a.checklist_version, PyInt(Len(checklists)))
         THEN Put(send_current_checklist(Len(checklists), picked_questions),
                  "keyboard", TRUE)
         ELSE my_q' = my_q /\ Continue("keyboard")
    ELSE IF m.cls = "MsgUserQuestionResponse"
    THEN Log(MsgUserQuestionResponse_as_dict(m), "keyboard")
    ELSE IF m.cls = "MsgImpactReport"
    THEN Log(MsgImpactReport_as_dict(m), "keyboard")
    ELSE \* MsgSetBlockStatus, MsgLogoutNotification: printed or logged;
         \* any other class: logged as unexpected
         my_q' = my_q /\ Continue("keyboard")

\* s.split(',')
RECURSIVE SplitComma(_)
SplitComma(s) ==
    IF IndexOf(s, 44) = 0 THEN <<s>>
    ELSE <<SubSeq(s, 1, IndexOf(s, 44) - 1)>>
         \o SplitComma(SubSeq(s, IndexOf(s, 44) + 1, Len(s)))

\* cmd.find(prefix) == 0
StartsWith(cmd, prefix) ==
    Len(cmd) >= Len(prefix) /\ SubSeq(cmd, 1, Len(prefix)) = prefix

\* the commands: "update checklist", "question " and "send checklist version";
\* the length of "new-question ", which is what the question command cuts off
CMD_UPDATE_CHECKLIST ==
    <<117, 112, 100, 97, 116, 101, 32, 99, 104, 101, 99, 107, 108, 105, 115, 116>>
CMD_QUESTION == <<113, 117, 101, 115, 116, 105, 111, 110, 32>>
CMD_SEND_VERSION ==
    <<115, 101, 110, 100, 32, 99, 104, 101, 99, 107, 108, 105, 115, 116, 32,
      118, 101, 114, 115, 105, 111, 110>>
LEN_NEW_QUESTION == 13

\* question_data of the question command: {'text': ..., 'responses': {0: ..}},
\* for the parts of cmd[len("new-question "):].split(',')
question_data(parts) ==
    PyDict((PyStr(<<116, 101, 120, 116>>) :> PyStr(parts[1]))
           @@ (PyStr(<<114, 101, 115, 112, 111, 110, 115, 101, 115>>) :>
                 PyDict([k \in {PyInt(i - 1) : i \in 1..(Len(parts) - 1)} |->
                            PyStr(parts[V(k) + 2])])))

\* msg.as_json().encode(), after msg.as_dict() has been logged
LoggedAndEncoded(m, dict, text) ==
    Bind2(LAMBDA d, t : Ok(PyEncoded(V(t))), dict, text)

\* the question command (main.py:79-87): what it hands to self.ut.send
QuestionItem(cmd, id) ==
    Bind(LAMBDA m : LoggedAndEncoded(m, MsgUserQuestion_as_dict(m),
                                     MsgUserQuestion_as_json(m)),
         MsgUserQuestion(MkDict(
             [question_id |-> PyInt(id),
              user_question |->
                  question_data(SplitComma(SubSeq(cmd, LEN_NEW_QUESTION + 1,
                                                  Len(cmd))))])))

\* the send checklist version command (main.py:89-92)
VersionItem(version) ==
    Bind(LAMBDA m : LoggedAndEncoded(m, MsgChecklistVersionNotification_as_dict(m),
                                     MsgChecklistVersionNotification_as_json(m)),
         MsgChecklistVersionNotification(MkDict(
             [checklist_version |-> PyInt(version)])))

\* Main.cmd_interpreter
cmd_interpreter(cmd) ==
    IF cmd = CMD_UPDATE_CHECKLIST
    THEN \E sample \in Samples(Len(cfg_checklist_questions),
                                cfg_checklist_num_questions) :
            create_new_checklist(sample, "queue", TRUE)
    ELSE /\ UNCHANGED <<checklists, picked_questions>>
         /\ IF StartsWith(cmd, CMD_QUESTION)
            THEN \E id \in RandomBytes : Put(QuestionItem(cmd, id), "queue", TRUE)
            ELSE IF StartsWith(cmd, CMD_SEND_VERSION)
            THEN Put(VersionItem(Len(checklists)), "queue", TRUE)
            ELSE my_q' = my_q /\ Continue("queue")

\* ---- the transport loop ----

\* what the peer sends: the JSON text of a login request of a known user, of an
\* unknown user and with uid null, of a version notification, of a block status, of an object without
\* type key, of an object of unknown type, of a login request whose uid is a float;
\* a text that is not JSON, a JSON list, and a byte that is not UTF-8
PacketIds ==
    {"login_known", "login_unknown", "login_null", "version_1", "version_2", "block_status",
     "no_type", "unknown_type", "bad_value", "bad_json", "not_object", "bad_utf8"}
\* the texts the peer also sends in two halves
SplitIds == {"login_known"}
PacketBody(id) ==
    CASE id = "login_known"
           -> PyJson(MkDict([type |-> PySym(MsgLoginRequest_NAME), uid |-> PyInt(1),
                             tagid |-> PyInt(7)]))
      [] id = "login_unknown"
           -> PyJson(MkDict([type |-> PySym(MsgLoginRequest_NAME), uid |-> PyInt(9)]))
      [] id = "login_null"
           -> PyJson(MkDict([type |-> PySym(MsgLoginRequest_NAME), uid |-> PyNone]))
      [] id = "version_1"
           -> PyJson(MkDict([type |-> PySym(MsgChecklistVersionNotification_NAME),
                             checklist_version |-> PyInt(1)]))
      [] id = "version_2"
           -> PyJson(MkDict([type |-> PySym(MsgChecklistVersionNotification_NAME),
                             checklist_version |-> PyInt(2)]))
      [] id = "block_status"
           -> PyJson(MkDict([type |-> PySym(MsgSetBlockStatus_NAME),
                             tagid |-> PyInt(7), block_status |-> PyBool(TRUE)]))
      [] id = "no_type" -> PyJson(MkDict([uid |-> PyInt(1)]))
      [] id = "unknown_type" -> PyJson(MkDict([type |-> PyStr(Letters(2))]))
      [] id = "bad_value"
           -> PyJson(MkDict([type |-> PySym(MsgLoginRequest_NAME),
                             uid |-> PyFloat(3, 2)]))
      [] id = "bad_json" -> PyBytes(<<123>>)
      [] id = "not_object" -> PyBytes(<<91, 93>>)
      [] id = "bad_utf8" -> PyBytes(<<255>>)

\* the bytes of a packet: those of the one text it was sent as, whole or in its
\* two halves; any other sequence of chunks (half a text, or one text after
\* another) is bytes that are not one JSON text
Chunk(id, part) == [id |-> id, part |-> part]
Assemble(chunks) ==
    IF Len(chunks) = 1 /\ chunks[1].part = "all" THEN PacketBody(chunks[1].id)
    ELSE IF Len(chunks) = 2 /\ chunks[1].part = "head" /\ chunks[2].part = "tail"
            /\ chunks[1].id = chunks[2].id
    THEN PacketBody(chunks[1].id)
    ELSE PyBytes(<<123>>)

\* userterminal.py:67-87: what parsing the packet raw puts on the manager queue
Deliver(q, r, raw) ==
    IF r.ok THEN Append(q, Received(r.val))
    ELSE IF r.err = "JSONDecodeError" THEN Append(q, Malformed(raw, r.err))
    ELSE IF r.err = "KeyError" THEN Append(q, Malformed(raw, r.err))
    ELSE q

\* msg.as_json() on what came off the outbound queue
item_as_json(item) ==
    IF IsMsgObject(item) THEN msg_as_json(item) ELSE Err("AttributeError")

\* userterminal.py:98-112 with a client: the text is sent, or the link error makes
\* the message undelivered; an exception of as_json() ends the transport process
Send(item, text) ==
    IF ~text.ok THEN tpos' = "dead" /\ UNCHANGED <<mgr_q, sent>>
    ELSE IF link.state = "up"
    THEN sent' = Append(sent, text.val) /\ mgr_q' = mgr_q /\ tpos' = "accept"
    ELSE mgr_q' = Append(mgr_q, Undelivered(item)) /\ sent' = sent /\ tpos' = "accept"

\* ---- the steps ----

SystemInit ==
    /\ op = "system" /\ cls = ""
    /\ input = [kind |-> "system", cls |-> "", v |-> PyNone]
    /\ msg = None /\ out = None /\ back = None
    /\ client = NoClient /\ pkt = <<>> /\ tpos = "accept"
    /\ my_q = <<>> /\ mgr_q = <<>>
    /\ checklists = <<>> /\ picked_questions = <<>> /\ keyb_queue = <<>>
    /\ mpos = "init"
    /\ link = [state |-> "idle", peer |-> 0] /\ waiting = 0
    /\ wire = <<>> /\ sent = <<>>
    /\ budget = MaxEvents

\* Main.__init__ (main.py:67-68), the transport process being started already
MainInit ==
    /\ mpos = "init"
    /\ \E sample \in Samples(Len(cfg_checklist_questions),
                              cfg_checklist_num_questions) :
          create_new_checklist(sample, "queue", FALSE)
    /\ UNCHANGED <<client, pkt, mgr_q, keyb_queue, link, wire, sent, budget>>
    /\ UNCHANGED waiting
    /\ UNCHANGED codecvars

\* Main.single_pass, the manager queue (main.py:174-188)
FromTerminal ==
    /\ mpos = "queue"
    /\ IF mgr_q = <<>>
       THEN mgr_q' = mgr_q /\ my_q' = my_q /\ Continue("keyboard")
       ELSE /\ mgr_q' = Tail(mgr_q)
            /\ IF Head(mgr_q).type = "user_received"
               THEN process_msg_from_terminal(Head(mgr_q).msg)
               ELSE my_q' = my_q /\ Continue("keyboard")
    /\ UNCHANGED <<client, pkt, checklists, picked_questions, keyb_queue, link, wire,
                   sent, budget>>
    /\ UNCHANGED waiting
    /\ UNCHANGED codecvars

\* Main.check_for_keyboard_cmd (main.py:97-104)
CheckForKeyboardCmd ==
    /\ mpos = "keyboard"
    /\ IF keyb_queue = <<>>
       THEN /\ my_q' = my_q /\ Continue("queue")
            /\ UNCHANGED <<keyb_queue, checklists, picked_questions>>
       ELSE /\ keyb_queue' = Tail(keyb_queue)
            /\ cmd_interpreter(Head(keyb_queue))
    /\ UNCHANGED <<client, pkt, mgr_q, link, wire, sent, budget>>
    /\ UNCHANGED waiting
    /\ UNCHANGED codecvars

\* KeyboardReader.keyb_read (main.py:28-37): a line has been typed
Commands ==
    {CMD_UPDATE_CHECKLIST, CMD_SEND_VERSION,
     CMD_QUESTION \o <<97, 98, 99, 100, 101, 44, 102, 44, 103>>,
     <<104, 101, 108, 112>>}
KeybRead ==
    /\ mpos \in {"queue", "keyboard"}
    /\ budget > 0
    /\ \E cmd \in Commands : keyb_queue' = Append(keyb_queue, cmd)
    /\ budget' = budget - 1
    /\ UNCHANGED <<client, pkt, tpos, my_q, mgr_q, checklists, picked_questions, mpos,
                   link, wire, sent>>
    /\ UNCHANGED waiting
    /\ UNCHANGED codecvars

\* the loop accepting a waiting connection whether it has a client or not
Accept_always ==
    /\ tpos = "accept"
    /\ IF waiting > 0
       THEN /\ client' = <<link.peer + 1>>
            /\ link' = [state |-> "up", peer |-> link.peer + 1]
            /\ waiting' = waiting - 1
       ELSE UNCHANGED <<client, link, waiting>>
    /\ tpos' = "recv"
    /\ UNCHANGED <<pkt, my_q, mgr_q, checklists, picked_questions, keyb_queue, mpos,
                   wire, sent, budget>>
    /\ UNCHANGED codecvars

\* userterminal.py:25-36: without a client, accept a waiting connection request
Accept ==
    /\ tpos = "accept"
    /\ IF client = NoClient /\ waiting > 0
       THEN /\ client' = <<link.peer + 1>>
            /\ link' = [state |-> "up", peer |-> link.peer + 1]
            /\ waiting' = waiting - 1
       ELSE UNCHANGED <<client, link, waiting>>
    /\ tpos' = "recv"
    /\ UNCHANGED <<pkt, my_q, mgr_q, checklists, picked_questions, keyb_queue, mpos,
                   wire, sent, budget>>
    /\ UNCHANGED codecvars

\* userterminal.py:38-50: with a client, the first recv: data starts a packet,
\* errno 11 is nothing to read, any other error is the client gone
Receive ==
    /\ tpos = "recv"
    /\ IF client = NoClient
       THEN tpos' = "outbound" /\ UNCHANGED <<client, pkt, wire, link>>
       ELSE IF wire # <<>>
       THEN /\ pkt' = <<Head(wire)>> /\ wire' = Tail(wire)
            /\ tpos' = "more" /\ UNCHANGED <<client, link>>
       ELSE IF link.state = "down"
       THEN /\ client' = NoClient /\ link' = [link EXCEPT !.state = "idle"]
            /\ tpos' = "outbound" /\ UNCHANGED <<pkt, wire>>
       ELSE tpos' = "outbound" /\ UNCHANGED <<client, pkt, wire, link>>
    /\ UNCHANGED <<my_q, mgr_q, checklists, picked_questions, keyb_queue, mpos, sent,
                   budget>>
    /\ UNCHANGED waiting
    /\ UNCHANGED codecvars

\* userterminal.py:51-63: before the timeout, a further recv: more data of the
\* packet, or the client gone and the packet with it (errno 11 changes nothing)
ReceiveMore ==
    /\ tpos = "more"
    /\ \/ /\ wire # <<>>
          /\ pkt' = Append(pkt, Head(wire)) /\ wire' = Tail(wire)
          /\ UNCHANGED <<client, link, tpos>>
       \/ /\ wire = <<>> /\ link.state = "down"
          /\ client' = NoClient /\ link' = [link EXCEPT !.state = "idle"]
          /\ pkt' = <<>>
          /\ tpos' = "outbound" /\ wire' = wire
    /\ UNCHANGED <<my_q, mgr_q, checklists, picked_questions, keyb_queue, mpos, sent,
                   budget>>
    /\ UNCHANGED waiting
    /\ UNCHANGED codecvars

\* userterminal.py:64-87: the timeout has elapsed, the packet is parsed
PacketComplete ==
    /\ tpos = "more"
    /\ mgr_q' = Deliver(mgr_q, parse_json(Assemble(pkt)), Assemble(pkt))
    /\ pkt' = <<>>
    /\ tpos' = "outbound"
    /\ UNCHANGED <<client, my_q, checklists, picked_questions, keyb_queue, mpos, link,
                   wire, sent, budget>>
    /\ UNCHANGED waiting
    /\ UNCHANGED codecvars

\* userterminal.py:89-112: one item of the outbound queue, if there is one
Outbound ==
    /\ tpos = "outbound"
    /\ IF my_q = <<>>
       THEN tpos' = "accept" /\ UNCHANGED <<my_q, mgr_q, sent>>
       ELSE /\ my_q' = Tail(my_q)
            /\ IF client = NoClient
               THEN /\ mgr_q' = Append(mgr_q, Undelivered(Head(my_q)))
                    /\ sent' = sent /\ tpos' = "accept"
               ELSE Send(Head(my_q), item_as_json(Head(my_q)))
    /\ UNCHANGED <<client, pkt, checklists, picked_questions, keyb_queue, mpos, link,
                   wire, budget>>
    /\ UNCHANGED waiting
    /\ UNCHANGED codecvars

\* a peer asks for a connection, also while another one is connected; the server
\* socket keeps one request waiting (userterminal.py:17)
PeerConnect ==
    /\ waiting = 0 /\ budget > 0
    /\ tpos \notin {"dead", "terminated"}
    /\ waiting' = waiting + 1
    /\ budget' = budget - 1
    /\ UNCHANGED <<client, pkt, tpos, my_q, mgr_q, checklists, picked_questions,
                   keyb_queue, mpos, link, wire, sent>>
    /\ UNCHANGED codecvars

\* the peer sends a text, in one chunk or in two
PeerSend ==
    /\ link.state = "up" /\ budget > 0
    /\ \/ \E id \in PacketIds : wire' = Append(wire, Chunk(id, "all"))
       \/ \E id \in SplitIds :
             wire' = wire \o <<Chunk(id, "head"), Chunk(id, "tail")>>
    /\ budget' = budget - 1
    /\ UNCHANGED <<client, pkt, tpos, my_q, mgr_q, checklists, picked_questions,
                   keyb_queue, mpos, link, sent>>
    /\ UNCHANGED waiting
    /\ UNCHANGED codecvars

\* the connected peer goes away; what it has sent can still be read
PeerDrop ==
    /\ link.state = "up"
    /\ link' = [link EXCEPT !.state = "down"]
    /\ UNCHANGED <<client, pkt, tpos, my_q, mgr_q, checklists, picked_questions,
                   keyb_queue, mpos, wire, sent, budget>>
    /\ UNCHANGED waiting
    /\ UNCHANGED codecvars

SystemNext ==
    \/ MainInit
    \/ FromTerminal
    \/ CheckForKeyboardCmd
    \/ KeybRead
    \/ Accept
    \/ Receive
    \/ ReceiveMore
    \/ PacketComplete
    \/ Outbound
    \/ PeerConnect
    \/ PeerSend
    \/ PeerDrop

System == SystemInit /\ [][SystemNext]_vars

----------------------------------------------------------------------------
(* Properties *)

\* the value of an attribute: field.value for a field object, else the attribute
AttrValue(x) == IF "kind" \in DOMAIN x THEN value_of(x) ELSE Ok(x)

\* every field of m2 equals (Python ==) the corresponding field of m1
SameFields(m1, m2) ==
    /\ m1.cls = m2.cls
    /\ DOMAIN m1.a = DOMAIN m2.a
    /\ \A k \in DOMAIN m1.a :
          /\ AttrValue(m1.a[k]).ok
          /\ AttrValue(m2.a[k]).ok
          /\ PyEq(AttrValue(m1.a[k]).val, AttrValue(m2.a[k]).val)

CeilDiv(n, d) == (n + d - 1) \div d

\* the bytes of the JSON text of the document given to the splitter
DocBytes == Utf8Encode(JsonDumpsText(input.v).val)

\* the messages returned by the splitter: the start message, then the segments
SplitMsgs == V(out.val)
NumSegments == Len(SplitMsgs) - 1
\* the k-th segment message, k counted from 0
SegmentAt(k) == SplitMsgs[k + 2]
PayloadAt(k) == V(value_of(SegmentAt(k).a.segment).val)

RECURSIVE ConcatPayloads(_)
\* the payloads of the segments with seq_no 0..(n - 1), in that order
ConcatPayloads(n) ==
    IF n = 0 THEN <<>>
    ELSE ConcatPayloads(n - 1) \o
         V(value_of((CHOOSE m \in {SegmentAt(k) : k \in 0..(NumSegments - 1)} :
                        m.a.seq_no = PyInt(n - 1)).a.segment).val)

\* C1: for every message built from valid field values, as_bytes followed by the
\* bytes constructor succeeds and gives a message with the same fields.
C1_BytesRoundTrip ==
    op = "from_bytes" => back.ok /\ SameFields(msg.val, back.val)

\* C2: for every message type and valid field set, the message is built, and
\* as_dict followed by the dict constructor succeeds and gives the same fields.
C2_DictRoundTrip ==
    /\ op = "new" => msg.ok
    /\ op = "from_dict" => back.ok /\ SameFields(msg.val, back.val)

\* C3: for every message built from valid field values, as_json succeeds and
\* returns JSON text, and the constructor applied to it gives the same fields.
C3_JsonRoundTrip ==
    /\ op = "as_json" => out.ok /\ T(out.val) = "json"
    /\ op = "from_json" => back.ok /\ SameFields(msg.val, back.val)

\* C4: parse_bytes on a buffer of type M with M's layout width returns a message
\* of type M, for each of the 18 types.
C4_ParseBytesDispatch ==
    (op = "parse_bytes" /\ input.kind = "buffer" /\ Len(V(input.v)) = Width(cls))
        => back.ok /\ back.val.cls = cls

\* C5: parse_bytes on a buffer whose first byte is no assigned type code (0, 4, 9
\* and the rest) raises the unknown-type error (KeyError) and returns no message.
C5_UnknownType ==
    (op = "parse_bytes" /\ input.kind = "unknown")
        => ~back.ok /\ back.err = "KeyError"

C5_Witness ==
    /\ op = "parse_bytes" /\ input.kind = "unknown"
    /\ V(input.v)[1] = 9 /\ Len(V(input.v)) > 1
    /\ ~back.ok

\* C6: constructing M from a buffer that starts with M's type code but is shorter
\* or longer than M's layout width raises; no message is produced.
C6_LengthMismatchFails ==
    (op = "from_buffer" /\ Len(V(input.v)) >= 1 /\ Len(V(input.v)) # Width(cls))
        => ~msg.ok

\* C7: as_bytes of every valid message succeeds and has the layout width of its
\* type.
C7_AsBytesWidth ==
    op = "as_bytes" => out.ok /\ T(out.val) = "bytes" /\ Len(V(out.val)) = Width(cls)

\* C8: the splitter returns a start message with length L, the given version and
\* segments = ceil(L/31), followed by exactly ceil(L/31) segment messages.
C8_SegmentCount ==
    op = "split" =>
        /\ out.ok
        /\ SplitMsgs[1].cls = "MsgChecklistUpdateStart"
        /\ PyEq(value_of(SplitMsgs[1].a.length).val, PyInt(Len(DocBytes)))
        /\ PyEq(SplitMsgs[1].a.checklist_version, input.version)
        /\ PyEq(SplitMsgs[1].a.segments,
                PyInt(CeilDiv(Len(DocBytes), FieldChecklistSegment_SIZE)))
        /\ NumSegments = CeilDiv(Len(DocBytes), FieldChecklistSegment_SIZE)

\* C9: the segment payloads concatenated in seq_no order and truncated to the
\* length declared in the start message are the bytes of the JSON text of the
\* document, and parsing them gives the document back.
C9_Reassembly ==
    (op = "split" /\ out.ok) =>
        /\ \A k \in 0..(NumSegments - 1) :
              \E j \in 0..(NumSegments - 1) : SegmentAt(j).a.seq_no = PyInt(k)
        /\ LET length == V(value_of(SplitMsgs[1].a.length).val)
               data == SubSeq(ConcatPayloads(NumSegments), 1, length)
           IN  /\ length <= NumSegments * FieldChecklistSegment_SIZE
               /\ data = DocBytes
               /\ JsonLoads(PyBytes(data)) = Ok(input.v)

C9_Witness ==
    /\ op = "split" /\ out.ok
    /\ NumSegments >= 2
    /\ Len(DocBytes) % FieldChecklistSegment_SIZE # 0
    /\ T(input.v) = "list"

\* C10: the k-th segment message after the start message (k from 0) has
\* seq_no = k, the version argument, and a 31-byte payload equal to bytes
\* [31k, 31k+31) of the JSON text; zero padding appears only in the last one.
C10_SegmentLayout ==
    (op = "split" /\ out.ok) =>
        \A k \in 0..(NumSegments - 1) :
            /\ SegmentAt(k).cls = "MsgChecklistUpdateSegment"
            /\ SegmentAt(k).a.seq_no = PyInt(k)
            /\ PyEq(SegmentAt(k).a.checklist_version, input.version)
            /\ Len(PayloadAt(k)) = FieldChecklistSegment_SIZE
            /\ \A j \in 1..FieldChecklistSegment_SIZE :
                  PayloadAt(k)[j] =
                      IF FieldChecklistSegment_SIZE * k + j <= Len(DocBytes)
                      THEN DocBytes[FieldChecklistSegment_SIZE * k + j]
                      ELSE 0
            /\ k < NumSegments - 1
                  => FieldChecklistSegment_SIZE * (k + 1) <= Len(DocBytes)

C10_Witness ==
    /\ op = "split" /\ out.ok
    /\ NumSegments >= 2
    /\ SegmentAt(1).a.seq_no = PyInt(1)
    /\ PayloadAt(NumSegments - 1)[FieldChecklistSegment_SIZE] = 0
    /\ PayloadAt(0)[FieldChecklistSegment_SIZE] # 0

\* C11: user_question_splitter returns a start message with the question id,
\* length L and segments = ceil(L/segmentSize), followed by that many segment
\* messages with the same id, seq_no 0, 1, 2, ... and payloads of the width of
\* the data field of the segment message.
C11_QuestionSplit ==
    op = "split_question" =>
        /\ out.ok
        /\ SplitMsgs[1].cls = "MsgUserQuestionStart"
        /\ PyEq(SplitMsgs[1].a.question_id, input.version)
        /\ PyEq(value_of(SplitMsgs[1].a.length).val, PyInt(Len(DocBytes)))
        /\ PyEq(SplitMsgs[1].a.segments,
                PyInt(CeilDiv(Len(DocBytes), FieldUserQuestionSegment_SIZE)))
        /\ NumSegments = CeilDiv(Len(DocBytes), FieldUserQuestionSegment_SIZE)
        /\ \A k \in 0..(NumSegments - 1) :
              /\ SegmentAt(k).cls = "MsgUserQuestionSegment"
              /\ PyEq(SegmentAt(k).a.question_id, input.version)
              /\ SegmentAt(k).a.seq_no = PyInt(k)
              /\ Len(V(value_of(SegmentAt(k).a.data).val))
                    = FieldUserQuestionSegment_SIZE

C13_OutOfRangeRejected ==
    op = "new_range" => ~msg.ok

\* C14: for every field object that a field constructor accepts, from a
\* structured value or from bytes, as_bytes succeeds and returns exactly SIZE
\* bytes of that field class
C14_FieldWidth ==
    op = "field_as_bytes" =>
        /\ out.ok
        /\ T(out.val) = "bytes"
        /\ Len(V(out.val)) = SIZE(cls)

\* the value a field class is expected to give back for value v: the bytes of
\* v for the binary fields, v itself for the others
RoundTripValue(c, v) ==
    IF c \in BinaryFields /\ T(v) = "str" THEN PyBytes(Utf8Encode(V(v)))
    ELSE IF c \in BinaryFields /\ T(v) = "list" THEN PyBytes(BytesOfList(V(v)).val)
    ELSE v

\* a value of the field class, as opposed to None or an encoded buffer
IsFieldValue(c, v) ==
    T(v) # "none" /\ (T(v) = "bytes" => c \in BinaryFields)

\* C15: for every integer, text and binary field class and every value within
\* capacity, decoding the as_bytes output of the field built from the value
\* yields the value, a text of exactly SIZE encoded bytes included
C15_FieldRoundTrip ==
    /\ op = "field_decode"
    /\ cls \in IntegerFields \cup TextFields \cup BinaryFields
    /\ IsFieldValue(cls, input.v)
    => /\ back.ok
       /\ value_of(back.val).ok
       /\ PyEq(value_of(back.val).val, RoundTripValue(cls, input.v))

\* C16: a checklist-responses field built from a mapping of question ids to
\* answer codes is accepted, encodes every entry as the byte answer * 32 + id
\* inside its SIZE bytes, and decodes to the same mapping; built from bytes, a
\* byte with low 5 bits 3 and high 3 bits 2 decodes to question 3 -> answer 2
C16_ChecklistResponses ==
    cls = "FieldChecklistResponses" /\ input.kind = "field" =>
        /\ op = "field_new" =>
              /\ msg.ok
              /\ T(input.v) = "bytes" =>
                    /\ PyInt(3) \in DOMAIN V(msg.val.v)
                    /\ V(msg.val.v)[PyInt(3)] = PyInt(2)
        /\ op = "field_as_bytes" =>
              /\ out.ok
              /\ Len(V(out.val)) = FieldChecklistResponses_SIZE
              /\ \A k \in DOMAIN V(input.v) :
                    \E j \in 1..Len(V(out.val)) :
                        V(out.val)[j] = V(V(input.v)[k]) * 32 + V(k)
        /\ op = "field_decode" =>
              /\ back.ok
              /\ PyEq(back.val.v, input.v)

Abs(n) == IF n < 0 THEN -n ELSE n

\* the integer n is x * factor, x a number num/den
IsScaled(n, x, factor) ==
    IF NumOf(x)[2] = factor THEN n = NumOf(x)[1]
    ELSE n * NumOf(x)[2] = NumOf(x)[1] * factor

\* the number y is within 1/factor of the number x
IsWithin(y, x, factor) ==
    IF NumOf(x)[2] = NumOf(y)[2]
    THEN Abs(NumOf(y)[1] - NumOf(x)[1]) * factor <= NumOf(x)[2]
    ELSE Abs(NumOf(y)[1] * NumOf(x)[2] - NumOf(x)[1] * NumOf(y)[2]) * factor
             <= NumOf(x)[2] * NumOf(y)[2]

UWBAxes == <<"xpos", "ypos", "zpos">>

\* C17: a UWB position field built from {x, y, z} in meters encodes to 9 bytes,
\* each axis the signed 24-bit little-endian integer value * 1000, and decoding
\* those bytes gives every axis back within 0.001
C17_UWBEncoding ==
    cls = "FieldUWBPosition" /\ input.kind = "field" /\ T(input.v) = "dict" =>
        /\ op = "field_as_bytes" =>
              /\ out.ok
              /\ Len(V(out.val)) = FieldUWBPosition_SIZE
              /\ \A i \in 1..3 :
                    IsScaled(SignedFromBytes(Slice(V(out.val),
                                 1 + (i - 1) * UWB_BYTES_PER_DIM, UWB_BYTES_PER_DIM)),
                             V(input.v)[PySym(UWBAxes[i])], UWB_CONV_FACTOR)
        /\ op = "field_decode" =>
              /\ back.ok
              /\ \A i \in 1..3 :
                    IsWithin(V(back.val.v)[PySym(UWBAxes[i])],
                             V(input.v)[PySym(UWBAxes[i])], UWB_CONV_FACTOR)

GPSCoords == <<"lat", "lon">>

\* C18: a GPS position field built from {lat, lon} in degrees encodes to 8
\* bytes, each coordinate the signed 32-bit little-endian integer
\* value * 10,000,000, and decoding those bytes gives each coordinate back
\* within 1e-7 degrees, for positive and negative coordinates alike
C18_GPSEncoding ==
    cls = "FieldGPSPosition" /\ input.kind = "field" /\ T(input.v) = "dict" =>
        /\ op = "field_as_bytes" =>
              /\ out.ok
              /\ Len(V(out.val)) = FieldGPSPosition_SIZE
              /\ \A i \in 1..2 :
                    IsScaled(SignedFromBytes(Slice(V(out.val),
                                 1 + (i - 1) * GPS_BYTES_PER_COORD, GPS_BYTES_PER_COORD)),
                             V(input.v)[PySym(GPSCoords[i])], GPS_CONV_FACTOR)
        /\ op = "field_decode" =>
              /\ back.ok
              /\ \A i \in 1..2 :
                    IsWithin(V(back.val.v)[PySym(GPSCoords[i])],
                             V(input.v)[PySym(GPSCoords[i])], GPS_CONV_FACTOR)

\* C19: a list of at most SIZE - 1 = 9 booleans is encoded by the
\* variable-length list field as one count byte equal to the list length, one
\* byte per boolean and zero padding to exactly SIZE = 10 bytes, and decoding
\* those bytes returns the same list; a longer list is rejected at construction
C19_VarLenList ==
    cls = "FieldUserQuestionResponse" /\ input.kind = "field" /\ T(input.v) = "list" =>
        LET n == Len(V(input.v))
        IN  /\ op = "field_new" => (msg.ok <=> n <= FieldUserQuestionResponse_SIZE - 1)
            /\ op = "field_as_bytes" =>
                  /\ out.ok
                  /\ V(out.val) = <<n>> \o [i \in 1..n |-> IF V(V(input.v)[i]) THEN 1 ELSE 0]
                                       \o Zeros(FieldUserQuestionResponse_SIZE - 1 - n)
            /\ op = "field_decode" =>
                  /\ back.ok
                  /\ PyEq(back.val.v, input.v)

\* a list of 9 booleans, not all equal, has been encoded and decoded
C19_Witness ==
    /\ op = "field_decode" /\ cls = "FieldUserQuestionResponse"
    /\ T(input.v) = "list"
    /\ Len(V(input.v)) = FieldUserQuestionResponse_SIZE - 1
    /\ V(input.v)[1] # V(input.v)[2]
    /\ back.ok
    /\ Len(V(out.val)) = FieldUserQuestionResponse_SIZE

\* the JSON text of the input value, as bytes
JsonTextBytes == Utf8Encode(JsonDumpsText(input.v).val)

C21_TypeGuard ==
    /\ op = "from_wrong_code" => msg = Err("ValueError")
    /\ op = "new_wrong_type" => msg = Err("ValueError")
    /\ op = "new" =>
          /\ ~Has(input.v, "type")
          /\ msg = New(cls, WithType(input.v, PySym(NAME(cls))))

\* a buffer of the width of a checklist_update (a class whose field decoding raises
\* AttributeError) behind the code of another message has been refused
C21_Witness ==
    /\ op = "from_wrong_code" /\ cls = "MsgChecklistUpdate"
    /\ Len(V(input.v)) = Width(cls)
    /\ V(input.v)[1] \in AssignedCodes
    /\ msg = Err("ValueError")

\* the object is a field object (not a plain attribute value)
IsFieldObject(x) == "kind" \in DOMAIN x

\* C22: a field constructor given a value of a kind it has no branch for raises;
\* no constructor returns a field object without a stored value; and a message
\* constructor given such a value for one of its fields raises as well
C22_UnsupportedKind ==
    op = "new_unsupported" =>
        /\ input.kind = "field_unsupported" => ~msg.ok
        /\ input.kind = "unsupported" /\ msg.ok =>
              \A attr \in DOMAIN msg.val.a :
                 IsFieldObject(msg.val.a[attr]) =>
                    /\ msg.val.a[attr].v # Unset
                    /\ T(input.v) = "dict" /\ Has(input.v, attr) =>
                          T(V(input.v)[PySym(attr)])
                             \in SupportedKinds(msg.val.a[attr].kind)

----------------------------------------------------------------------------
(* The control process and the transport loop *)

\* the transport loop takes an item off its outbound queue in this step
TakesOutbound == my_q # <<>> /\ my_q' = Tail(my_q)
\* the step sends one text to the client and reports nothing
SendsOnly == Len(sent') = Len(sent) + 1 /\ mgr_q' = mgr_q
\* the step sends nothing and reports the item once as user_undelivered
ReportsOnly(item) == sent' = sent /\ mgr_q' = Append(mgr_q, Undelivered(item))

\* C23: every item the transport loop takes off its outbound queue is either sent
\* to the connected client or reported as exactly one user_undelivered event
\* carrying it, never both and never neither; without a client, or when the send
\* raises a link error, it is reported user_undelivered
C23_SentOrUndelivered ==
    [][TakesOutbound =>
          /\ \/ client # NoClient /\ SendsOnly
             \/ ReportsOnly(Head(my_q))
          /\ client = NoClient \/ link.state # "up" => ReportsOnly(Head(my_q))]_vars

\* C23, for the items that are message objects whose as_json() returns
C23_MessageSentOrUndelivered ==
    [][TakesOutbound /\ item_as_json(Head(my_q)).ok =>
          /\ \/ client # NoClient /\ SendsOnly
             \/ ReportsOnly(Head(my_q))
          /\ client = NoClient \/ link.state # "up" => ReportsOnly(Head(my_q))]_vars

\* the receive timeout elapses in this step, the client still being connected:
\* the packet is complete
CompletesPacket == tpos = "more" /\ pkt' = <<>> /\ client' = client
\* the step puts exactly the event e on the manager queue
PutsEvent(e) == mgr_q' = Append(mgr_q, e)
\* the step puts exactly one user_received_malformed event carrying raw on the
\* manager queue
PutsMalformed(raw) ==
    /\ Len(mgr_q') = Len(mgr_q) + 1
    /\ SubSeq(mgr_q', 1, Len(mgr_q)) = mgr_q
    /\ mgr_q'[Len(mgr_q')].type = "user_received_malformed"
    /\ mgr_q'[Len(mgr_q')].msg = raw

\* C24: for every packet the transport finishes receiving it puts exactly one event
\* on the manager queue: user_received with the parsed message when parsing
\* succeeds, otherwise user_received_malformed with the raw packet, whatever the
\* parse error is
C24_OneEventPerPacket ==
    [][CompletesPacket =>
          IF parse_json(Assemble(pkt)).ok
          THEN PutsEvent(Received(parse_json(Assemble(pkt)).val))
          ELSE PutsMalformed(Assemble(pkt))]_vars

\* C25: every item on the transport's outbound queue is a message object whose
\* as_json() returns, none is already-serialized bytes, and the transport loop
\* never fails on an item it takes off the queue
C25_OutboundItems ==
    /\ \A i \in 1..Len(my_q) : IsMsgObject(my_q[i]) /\ item_as_json(my_q[i]).ok
    /\ tpos # "dead"

\* the control process handles the received message of class c in this step
Handles(c) ==
    /\ mpos = "queue" /\ mpos' # "queue"
    /\ mgr_q # <<>>
    /\ Head(mgr_q).type = "user_received"
    /\ Head(mgr_q).msg.cls = c
\* the message the step handles
Handled == Head(mgr_q).msg
\* the step enqueues exactly the item x on the outbound queue
Enqueues(x) == my_q' = Append(my_q, x)
\* the step enqueues exactly one item
EnqueuesOne == Len(my_q') = Len(my_q) + 1 /\ SubSeq(my_q', 1, Len(my_q)) = my_q
Enqueued == my_q'[Len(my_q')]
\* x is a checklist_update object carrying the version and the questions picked
IsChecklistUpdate(x, version, picked) ==
    /\ IsMsgObject(x) /\ x.cls = "MsgChecklistUpdate"
    /\ x.a.checklist_version = PyInt(version)
    /\ x.a.checklist_data.v =
          PyList([i \in 1..Len(picked) |-> cfg_checklist_questions[picked[i] + 1]])

\* C26: handling a received checklist_version_notification whose version differs
\* from the number of checklists created so far enqueues exactly one
\* checklist_update carrying the current version and the currently picked
\* questions; with equal versions nothing is enqueued
C26_VersionNotification ==
    [][Handles("MsgChecklistVersionNotification") =>
          IF PyEq(Handled.a.checklist_version, PyInt(Len(checklists)))
          THEN my_q' = my_q
          ELSE /\ EnqueuesOne
               /\ IsChecklistUpdate(Enqueued, Len(checklists), picked_questions)
               /\ picked_questions = checklists[Len(checklists)]]_vars

\* a second checklist_update of version 1 is queued behind the one of the start:
\* the reply to a notification of another version
C26_Witness ==
    /\ mpos = "keyboard" /\ Len(checklists) = 1 /\ budget = 0 /\ keyb_queue = <<>>
    /\ Len(my_q) = 2
    /\ IsChecklistUpdate(my_q[1], 1, picked_questions)
    /\ IsChecklistUpdate(my_q[2], 1, picked_questions)

\* x is a login_response object for uid: true with the stored username and profile
\* if str(uid) is a key of the user database, otherwise false with an empty
\* username and profile 255
IsLoginResponse(x, uid) ==
    /\ IsMsgObject(x) /\ x.cls = "MsgLoginResponse"
    /\ x.a.uid.v = uid
    /\ IF PyStrOf(uid) \in DOMAIN cfg_userdb
       THEN /\ x.a.response = PyBool(TRUE)
            /\ x.a.username.v = cfg_userdb[PyStrOf(uid)].username
            /\ x.a.profile = cfg_userdb[PyStrOf(uid)].profile
       ELSE /\ x.a.response = PyBool(FALSE)
            /\ x.a.username.v = PyStr(<<>>)
            /\ x.a.profile = PyInt(255)

\* C27: handling a received login_request enqueues exactly one login_response with
\* the request's uid, true with the stored username and profile if and only if the
\* uid as a decimal string is a key of the user database, and otherwise false with
\* an empty username and profile 255
C27_LoginResponse ==
    [][Handles("MsgLoginRequest") =>
          /\ EnqueuesOne
          /\ IsLoginResponse(Enqueued, Handled.a.uid.v)]_vars

\* the member name of the i-th text sent to the client
SentMember(i, name) == V(V(sent[i]))[PySym(name)]

\* the login_response for the known uid 1 has been sent to the client
C27_Witness ==
    /\ Len(sent) = 2
    /\ SentMember(2, "type") = PySym(MsgLoginResponse_NAME)
    /\ SentMember(2, "uid") = PyInt(1)
    /\ SentMember(2, "response") = PyBool(TRUE)

\* the control process creates a checklist in this step: at its start, or handling
\* the command 'update checklist'
CreatesChecklist ==
    \/ mpos = "init" /\ mpos' # "init"
    \/ /\ mpos = "keyboard" /\ mpos' # "keyboard"
       /\ keyb_queue # <<>> /\ Head(keyb_queue) = CMD_UPDATE_CHECKLIST
\* the version an enqueued checklist_update or checklist_version_notification
\* carries, the latter being enqueued as an encoded text
CarriesVersion(x, version) ==
    /\ IsMsgObject(x) /\ x.cls = "MsgChecklistUpdate"
          => x.a.checklist_version = PyInt(version)
    /\ ~IsMsgObject(x)
          /\ V(x.encoded)[PySym("type")] = PySym(MsgChecklistVersionNotification_NAME)
          => V(x.encoded)[PySym("checklist_version")] = PyInt(version)

\* C28: the checklist version is the number of checklists created since the start:
\* it is at least 1 once the start is over, grows by exactly one in each creation
\* (the start and each 'update checklist' command) and changes in no other step;
\* each creation enqueues exactly one checklist_update; every checklist_update or
\* version notification enqueued carries the version current at that moment
C28_ChecklistVersion ==
    [][/\ mpos' # "init" =>
             /\ Len(checklists') >= 1
             /\ picked_questions' = checklists'[Len(checklists')]
       /\ IF CreatesChecklist
          THEN /\ Len(checklists') = Len(checklists) + 1
               /\ SubSeq(checklists', 1, Len(checklists)) = checklists
               /\ EnqueuesOne
               /\ IsChecklistUpdate(Enqueued, Len(checklists'), picked_questions')
          ELSE checklists' = checklists
       /\ Len(my_q') > Len(my_q) =>
             EnqueuesOne /\ CarriesVersion(Enqueued, Len(checklists'))]_vars

\* 'update checklist' has been handled: the updates of version 1 and 2 are queued
C28_Witness ==
    /\ Len(checklists) = 2 /\ Len(my_q) = 2
    /\ IsChecklistUpdate(my_q[1], 1, checklists[1])
    /\ IsChecklistUpdate(my_q[2], 2, checklists[2])

\* a recv of this step raises an error other than 'resource temporarily
\* unavailable': the loop has a client, nothing is left to read and the peer is gone
ReceiveError ==
    /\ client # NoClient /\ wire = <<>> /\ link.state = "down"
    /\ \/ tpos = "recv" /\ tpos' # "recv"
       \/ tpos = "more" /\ tpos' # "more" /\ ~CompletesPacket

\* C29: the transport loop holds at most one client: it accepts a waiting
\* connection only while it has no client, and a client it has is never replaced,
\* only dropped; it drops the client on a receive error other than 'resource
\* temporarily unavailable' and only then; the packet being received at the drop is
\* discarded without any event; without a client the loop accepts a waiting
\* connection again
C29_OneClient ==
    [][/\ client # NoClient => client' \in {client, NoClient} /\ waiting' >= waiting
       /\ client # NoClient /\ tpos = "recv" /\ tpos' # "recv"
             /\ wire = <<>> /\ link.state = "down" => client' = NoClient
       /\ ReceiveError => client' = NoClient /\ pkt' = <<>> /\ mgr_q' = mgr_q
       /\ client # NoClient /\ client' = NoClient =>
             /\ ReceiveError
             /\ pkt' = <<>> /\ mgr_q' = mgr_q /\ my_q' = my_q /\ sent' = sent
       /\ client = NoClient /\ waiting > 0 /\ tpos = "accept" /\ tpos' # "accept" =>
             client' # NoClient /\ waiting' = waiting - 1]_vars

\* the first client has been dropped and the second connection accepted
C29_Witness ==
    /\ client = <<2>> /\ link.state = "up" /\ pkt = <<>> /\ mgr_q = <<>>
    /\ budget = 0 /\ waiting = 0

====
